---------------------------- MODULE Spec2Model ----------------------------
(***************************************************************************)
(* A model of the CMap engine of hayro-interpret (src/font/cmap.rs): the   *)
(* CMap value table and its lookup, the code reader, and the textual       *)
(* directive interpreter driven token by token.                            *)
(*                                                                         *)
(* Unsigned 32-bit integers are pairs <<hi, lo>> of 16-bit halves, because *)
(* TLC's integers stop at 2^31 - 1.  A Rust String is a sequence of code   *)
(* points; its bytes are its UTF-8 encoding.                               *)
(***************************************************************************)
EXTENDS Integers, Sequences, FiniteSets, TLC

VARIABLES
    overflow_checks,  \* the build: TRUE panics on integer overflow, FALSE wraps
    family,           \* the family of inputs the text of this run is drawn from
    pc,               \* where the program is: "start", "top", a block name, "done"
    result,           \* "running", "some", "none", "panic", "hang"
    cmap,             \* the CMap being built or returned
    eof,              \* the lexer has returned Eof (and returns it from now on)
    entries,          \* number of block entries processed so far
    last,             \* the last parser operation, its tokens and the CMap before it
    rd,               \* the last read_code call: its arguments and what it returned
    wmode_seen,       \* `/WMode 1` in the input: "no", "one", "overridden" by a later 0
    stream,           \* the buffer of a BinaryCMapStream, at pos 0
    reading,          \* the last reader called on the stream and what it returned
    lexer             \* a CMapLexer and the last token its get_obj returned

vars == <<overflow_checks, family, pc, result, cmap, eof, entries, last, rd, wmode_seen,
         stream, reading, lexer>>

-----------------------------------------------------------------------------
(* Bounds of the model. *)

MaxEntries == 2     \* block entries processed in one parse
MaxBufLen == 2      \* length of the buffers handed to read_code
MaxStreamLen == 5   \* length of the buffers handed to the stream readers
MaxInputLen == 3    \* length of the inputs of the lexer made of every byte of LexerBytes

-----------------------------------------------------------------------------
(* u32 arithmetic on <<hi, lo>> pairs. *)

Half == 65536

U32(n) == <<n \div Half, n % Half>>

U32Max == <<Half - 1, Half - 1>>

U32Le(a, b) == a[1] < b[1] \/ (a[1] = b[1] /\ a[2] <= b[2])

U32Lt(a, b) == a[1] < b[1] \/ (a[1] = b[1] /\ a[2] < b[2])

wrapping_sub(a, b) ==
    LET lo == a[2] - b[2]
        borrow == IF lo < 0 THEN 1 ELSE 0
    IN  <<(a[1] - b[1] - borrow) % Half, lo % Half>>

wrapping_add(a, b) ==
    LET lo == a[2] + b[2]
        carry == lo \div Half
    IN  <<(a[1] + b[1] + carry) % Half, lo % Half>>

\* `i as u32` for an i32 i: two's complement.
i32_as_u32(i) == <<(i \div Half) % Half, i % Half>>

\* (c << 8) | byte on a u32: the top byte is shifted out.
shl8_or(c, byte) == <<((c[1] % 256) * 256) + (c[2] \div 256), ((c[2] % 256) * 256) + byte>>

Min(a, b) == IF a < b THEN a ELSE b

-----------------------------------------------------------------------------
(* Rust strings: UTF-8 encoding and lossy decoding. *)

REPLACEMENT == 65533   \* U+FFFD

utf8_encode_char(c) ==
    IF c < 128 THEN <<c>>
    ELSE IF c < 2048 THEN <<192 + (c \div 64), 128 + (c % 64)>>
    ELSE IF c < 65536 THEN <<224 + (c \div 4096), 128 + ((c \div 64) % 64), 128 + (c % 64)>>
    ELSE <<240 + (c \div 262144), 128 + ((c \div 4096) % 64),
           128 + ((c \div 64) % 64), 128 + (c % 64)>>

RECURSIVE into_bytes(_)
into_bytes(s) ==
    IF s = <<>> THEN <<>> ELSE utf8_encode_char(Head(s)) \o into_bytes(Tail(s))

\* safe_get of core::str::lossy: 0 past the end.
safe_get(bytes, i) == IF i <= Len(bytes) THEN bytes[i] ELSE 0

is_cont(b) == b >= 128 /\ b <= 191

utf8_char_width(b) ==
    IF b < 128 THEN 1
    ELSE IF b >= 194 /\ b <= 223 THEN 2
    ELSE IF b >= 224 /\ b <= 239 THEN 3
    ELSE IF b >= 240 /\ b <= 244 THEN 4
    ELSE 0

second_ok3(b, x) ==
    \/ b = 224 /\ x >= 160 /\ x <= 191
    \/ b >= 225 /\ b <= 236 /\ is_cont(x)
    \/ b = 237 /\ x >= 128 /\ x <= 159
    \/ b >= 238 /\ b <= 239 /\ is_cont(x)

second_ok4(b, x) ==
    \/ b = 240 /\ x >= 144 /\ x <= 191
    \/ b >= 241 /\ b <= 243 /\ is_cont(x)
    \/ b = 244 /\ x >= 128 /\ x <= 143

\* One step of the lossy decoder at 1-based index i: <<code point, bytes used>>.
\* An invalid or truncated sequence yields U+FFFD for its maximal valid prefix.
lossy_step(bytes, i) ==
    LET b == bytes[i]
        w == utf8_char_width(b)
        b2 == safe_get(bytes, i + 1)
        b3 == safe_get(bytes, i + 2)
        b4 == safe_get(bytes, i + 3)
    IN  IF w = 1 THEN <<b, 1>>
        ELSE IF w = 2 THEN
            IF is_cont(b2) THEN <<((b % 32) * 64) + (b2 % 64), 2>>
            ELSE <<REPLACEMENT, 1>>
        ELSE IF w = 3 THEN
            IF ~second_ok3(b, b2) THEN <<REPLACEMENT, 1>>
            ELSE IF ~is_cont(b3) THEN <<REPLACEMENT, 2>>
            ELSE <<((b % 16) * 4096) + ((b2 % 64) * 64) + (b3 % 64), 3>>
        ELSE IF w = 4 THEN
            IF ~second_ok4(b, b2) THEN <<REPLACEMENT, 1>>
            ELSE IF ~is_cont(b3) THEN <<REPLACEMENT, 2>>
            ELSE IF ~is_cont(b4) THEN <<REPLACEMENT, 3>>
            ELSE <<((b % 8) * 262144) + ((b2 % 64) * 4096) + ((b3 % 64) * 64) + (b4 % 64), 4>>
        ELSE <<REPLACEMENT, 1>>

RECURSIVE lossy_from(_, _)
lossy_from(bytes, i) ==
    IF i > Len(bytes) THEN <<>>
    ELSE LET st == lossy_step(bytes, i)
         IN  <<st[1]>> \o lossy_from(bytes, i + st[2])

from_utf8_lossy(bytes) == lossy_from(bytes, 1)

-----------------------------------------------------------------------------
(* The CMap value table. *)

MAX_MAP_RANGE == 16777215   \* (1 << 24) - 1

EmptyMap == [k \in {} |-> <<0, 0>>]

\* MapInsert that keeps the value of a key already there.
MapInsert_keeping(map, k, v) ==
    [x \in DOMAIN map \cup {k} |-> IF x \in DOMAIN map THEN map[x] ELSE v]

MapInsert(map, k, v) == [x \in DOMAIN map \cup {k} |-> IF x = k THEN v ELSE map[x]]

CMapNew ==
    [codespace_ranges |-> <<<<>>, <<>>, <<>>, <<>>>>,
     map |-> EmptyMap,
     name |-> "",
     vertical |-> FALSE]

add_codespace_range(cm, n, low, high) ==
    IF n > 0 /\ n <= 4
    THEN [cm EXCEPT !.codespace_ranges[n] = Append(Append(@, low), high)]
    ELSE cm

identity_h ==
    add_codespace_range([CMapNew EXCEPT !.name = "Identity-H", !.vertical = FALSE],
                        2, U32(0), U32(65535))

identity_v ==
    add_codespace_range([CMapNew EXCEPT !.name = "Identity-V", !.vertical = TRUE],
                        2, U32(0), U32(65535))

is_vertical(cm) == cm.vertical

\* is_identity_cmap without `&& self.map.is_empty()`.
is_identity_cmap_by_name(cm) == cm.name \in {"Identity-H", "Identity-V"}

is_identity_cmap(cm) ==
    (cm.name = "Identity-H" \/ cm.name = "Identity-V") /\ DOMAIN cm.map = {}

None == [some |-> FALSE, v |-> <<0, 0>>]

Some(v) == [some |-> TRUE, v |-> v]

\* lookup_code with `code < 0xFFFF` for `code <= 0xFFFF`.
lookup_code_exclusive(cm, code) ==
    IF code \in DOMAIN cm.map THEN Some(cm.map[code])
    ELSE IF is_identity_cmap(cm)
         THEN IF U32Lt(code, U32(65535)) THEN Some(code) ELSE None
         ELSE None

lookup_code(cm, code) ==
    IF code \in DOMAIN cm.map THEN Some(cm.map[code])
    ELSE IF is_identity_cmap(cm)
         THEN IF U32Le(code, U32(65535)) THEN Some(code) ELSE None
         ELSE None

map_one(map, src, dst) == MapInsert(map, src, dst)

\* What a range builder returns: "ok" is Some(()), "none" is None, "panic" is an
\* overflow panic of a build with overflow checks, "hang" a loop that never ends.
Outcome(status, map) == [status |-> status, map |-> map]

\* `if high - low > MAX_MAP_RANGE { return None; }`: the subtraction underflows
\* when low > high; it panics with overflow checks and wraps without.
span_check(low, high) ==
    IF U32Lt(high, low) /\ overflow_checks THEN "panic"
    ELSE IF U32Lt(U32(MAX_MAP_RANGE), wrapping_sub(high, low)) THEN "none"
    ELSE "ok"

\* The loop of map_cid_range.  `current_low += 1` overflows at 0xFFFFFFFF: a panic
\* with overflow checks; without, current_low wraps to 0 and, high being
\* 0xFFFFFFFF, `current_low <= high` holds for ever.
RECURSIVE cid_range_loop(_, _, _, _)
cid_range_loop(map, current_low, current_dst, high) ==
    IF ~U32Le(current_low, high) THEN Outcome("ok", map)
    ELSE LET inserted == MapInsert(map, current_low, current_dst)
         IN  IF current_low = U32Max
             THEN Outcome(IF overflow_checks THEN "panic" ELSE "hang", inserted)
             ELSE IF current_dst = U32Max /\ overflow_checks
             THEN Outcome("panic", inserted)
             ELSE cid_range_loop(inserted, wrapping_add(current_low, U32(1)),
                                 wrapping_add(current_dst, U32(1)), high)

map_cid_range(map, low, high, dst_low) ==
    LET chk == span_check(low, high)
    IN  IF chk # "ok" THEN Outcome(chk, map)
        ELSE cid_range_loop(map, low, dst_low, high)

bf_string_char(str) == IF str = <<>> THEN U32(0) ELSE U32(str[1])

\* One pass of the string increment of map_bf_range, on the string's UTF-8 bytes,
\* followed by String::from_utf8_lossy.
bf_increment(current_dst) ==
    LET bytes == into_bytes(current_dst)
        len == Len(bytes)
    IN  IF len = 0 THEN [panic |-> FALSE, str |-> from_utf8_lossy(bytes)]
        ELSE IF bytes[len] = 255
        THEN IF len > 1
             THEN IF bytes[len - 1] = 255 /\ overflow_checks
                  THEN [panic |-> TRUE, str |-> current_dst]
                  ELSE [panic |-> FALSE,
                        str |-> from_utf8_lossy(
                            [bytes EXCEPT ![len - 1] = (@ + 1) % 256, ![len] = 0])]
             ELSE [panic |-> FALSE, str |-> from_utf8_lossy(bytes)]
        ELSE [panic |-> FALSE,
              str |-> from_utf8_lossy([bytes EXCEPT ![len] = @ + 1])]

RECURSIVE bf_range_loop(_, _, _, _)
bf_range_loop(map, current_low, current_dst, high) ==
    IF ~U32Le(current_low, high) THEN Outcome("ok", map)
    ELSE LET inserted == MapInsert(map, current_low, bf_string_char(current_dst))
             next_dst == bf_increment(current_dst)
         IN  IF next_dst.panic THEN Outcome("panic", inserted)
             ELSE IF current_low = U32Max
             THEN Outcome(IF overflow_checks THEN "panic" ELSE "hang", inserted)
             ELSE bf_range_loop(inserted, wrapping_add(current_low, U32(1)),
                                next_dst.str, high)

map_bf_range(map, low, high, dst_low) ==
    LET chk == span_check(low, high)
    IN  IF chk # "ok" THEN Outcome(chk, map)
        ELSE bf_range_loop(map, low, dst_low, high)

\* The loop of map_bf_range_to_array; i is 1-based here.  Without overflow checks
\* current_low wraps to 0 and the loop goes on while array elements remain.
RECURSIVE array_loop(_, _, _, _, _)
array_loop(map, current_low, i, high, array) ==
    IF ~(U32Le(current_low, high) /\ i <= Len(array)) THEN Outcome("ok", map)
    ELSE LET inserted == MapInsert(map, current_low, array[i])
         IN  IF current_low = U32Max /\ overflow_checks
             THEN Outcome("panic", inserted)
             ELSE array_loop(inserted, wrapping_add(current_low, U32(1)), i + 1,
                             high, array)

map_bf_range_to_array(map, low, high, array) ==
    LET chk == span_check(low, high)
    IN  IF chk # "ok" THEN Outcome(chk, map)
        ELSE array_loop(map, low, 1, high, array)

-----------------------------------------------------------------------------
(* The code reader. *)

\* in_codespace with `c > low` for `c >= low`.
in_codespace_exclusive(codespace_range, c) ==
    \E j \in 1..(Len(codespace_range) \div 2) :
        /\ U32Lt(codespace_range[2 * j - 1], c)
        /\ U32Le(c, codespace_range[2 * j])

\* Some (low, high) chunk of the flat sequence holds c.
in_codespace(codespace_range, c) ==
    \E j \in 1..(Len(codespace_range) \div 2) :
        /\ U32Le(codespace_range[2 * j - 1], c)
        /\ U32Le(c, codespace_range[2 * j])

\* What a read_code call does: it panics, or returns (code, len).
ReadOut(panic, code, len) == [panic |-> panic, code |-> code, len |-> len]

\* read_code_loop that keeps the longest match instead of returning at the first.
RECURSIVE read_code_loop_longest(_, _, _, _, _, _)
read_code_loop_longest(cm, bytes, offset, n, limit, c) ==
    IF n >= limit \/ offset + n >= Len(bytes) THEN ReadOut(FALSE, U32(0), 1)
    ELSE LET c2 == shl8_or(c, bytes[offset + n + 1])
             longer == read_code_loop_longest(cm, bytes, offset, n + 1, limit, c2)
         IN  IF longer # ReadOut(FALSE, U32(0), 1) THEN longer
             ELSE IF in_codespace(cm.codespace_ranges[n + 1], c2)
             THEN ReadOut(FALSE, c2, n + 1)
             ELSE longer

\* read_code_loop over `0..4` whatever is left of bytes, a missing byte read as 0.
RECURSIVE read_code_loop_past_end(_, _, _, _, _, _)
read_code_loop_past_end(cm, bytes, offset, n, limit, c) ==
    IF n >= 4 THEN ReadOut(FALSE, U32(0), 1)
    ELSE LET c2 == shl8_or(c, IF offset + n < Len(bytes) THEN bytes[offset + n + 1] ELSE 0)
         IN  IF in_codespace(cm.codespace_ranges[n + 1], c2)
             THEN ReadOut(FALSE, c2, n + 1)
             ELSE read_code_loop_past_end(cm, bytes, offset, n + 1, limit, c2)

\* The body of `for n in 0..limit`, from n on, with c accumulated so far.
RECURSIVE read_code_loop(_, _, _, _, _, _)
read_code_loop(cm, bytes, offset, n, limit, c) ==
    IF n >= limit \/ offset + n >= Len(bytes) THEN ReadOut(FALSE, U32(0), 1)
    ELSE LET c2 == shl8_or(c, bytes[offset + n + 1])
         IN  IF in_codespace(cm.codespace_ranges[n + 1], c2)
             THEN ReadOut(FALSE, c2, n + 1)
             ELSE read_code_loop(cm, bytes, offset, n + 1, limit, c2)

\* `a - b` on usize wraps below zero.
usize_sub_underflows(a, b) == b > a

\* `bytes.len() - offset` underflows when offset > bytes.len(): a panic with
\* overflow checks; without, the difference wraps to a huge usize and 4 is the min.
read_code(cm, bytes, offset) ==
    IF usize_sub_underflows(Len(bytes), offset)
    THEN IF overflow_checks THEN ReadOut(TRUE, U32(0), 0)
         ELSE read_code_loop(cm, bytes, offset, 0, 4, U32(0))
    ELSE read_code_loop(cm, bytes, offset, 0, Min(4, Len(bytes) - offset), U32(0))

-----------------------------------------------------------------------------
(* Tokens of the textual lexer and the helpers that read them. *)

Tok(type, bytes, int, text) == [type |-> type, bytes |-> bytes, int |-> int, text |-> text]

HexString(bytes) == Tok("HexString", bytes, 0, "")
String(chars) == Tok("String", chars, 0, "")
Integer(i) == Tok("Integer", <<>>, i, "")
Command(text) == Tok("Command", <<>>, 0, text)
Name(text) == Tok("Name", <<>>, 0, text)
Eof == Tok("Eof", <<>>, 0, "")

\* Each byte of a hex string becomes the char with that code; a String is kept.
expect_string(obj) ==
    IF obj.type = "HexString" \/ obj.type = "String"
    THEN [some |-> TRUE, str |-> obj.bytes]
    ELSE [some |-> FALSE, str |-> <<>>]

expect_int(obj) ==
    IF obj.type = "Integer" THEN [some |-> TRUE, int |-> obj.int]
    ELSE [some |-> FALSE, int |-> 0]

RECURSIVE str_to_int_from(_, _)
str_to_int_from(a, s) ==
    IF s = <<>> THEN a ELSE str_to_int_from(shl8_or(a, Head(s) % 256), Tail(s))

str_to_int(s) == str_to_int_from(U32(0), s)

\* The k-th token a handler reads; the lexer keeps returning Eof at the end.
Get(toks, k) == IF k <= Len(toks) THEN toks[k] ELSE Eof

-----------------------------------------------------------------------------
(* One iteration of the loop of each parse_... block function, on the tokens  *)
(* it reads.  ctl: "continue" loops again, "break" and "return" leave the     *)
(* block with Some(()), "none" propagates None out of parse_cmap; used is the *)
(* number of tokens read.                                                     *)

Step(ctl, cm, used) == [ctl |-> ctl, cmap |-> cm, used |-> used]

\* Built with the builder's None discarded instead of propagated by `?`.
Built_discarding(cm, out, used) ==
    Step(IF out.status \in {"ok", "none"} THEN "continue" ELSE out.status,
         [cm EXCEPT !.map = out.map], used)

\* A range builder's outcome, applied with `?`.
Built(cm, out, used) ==
    Step(IF out.status = "ok" THEN "continue" ELSE out.status,
         [cm EXCEPT !.map = out.map], used)

\* char::from_u32: None for surrogates and beyond U+10FFFF.
char_from_u32(code_point) ==
    ~(U32Le(U32(55296), code_point) /\ U32Le(code_point, U32(57343)))
        /\ U32Le(code_point, U32(1114111))

\* parse_bf_char that stores the first character whatever the length.
parse_bf_char_first(cm, toks) ==
    LET obj == Get(toks, 1)
        src_str == expect_string(obj)
        src == str_to_int(src_str.str)
        dst_str == expect_string(Get(toks, 2))
    IN  IF obj = Eof THEN Step("break", cm, 1)
        ELSE IF obj = Command("endbfchar") THEN Step("return", cm, 1)
        ELSE IF ~src_str.some THEN Step("none", cm, 1)
        ELSE IF ~dst_str.some THEN Step("none", cm, 2)
        ELSE Step("continue",
                  [cm EXCEPT !.map = map_one(@, src, bf_string_char(dst_str.str))], 2)

parse_bf_char(cm, toks) ==
    LET obj == Get(toks, 1)
        src_str == expect_string(obj)
        src == str_to_int(src_str.str)
        dst_str == expect_string(Get(toks, 2))
        code_point == str_to_int(dst_str.str)
    IN  IF obj = Eof THEN Step("break", cm, 1)
        ELSE IF obj = Command("endbfchar") THEN Step("return", cm, 1)
        ELSE IF ~src_str.some THEN Step("none", cm, 1)
        ELSE IF ~dst_str.some THEN Step("none", cm, 2)
        ELSE IF Len(dst_str.str) <= 2
        THEN IF char_from_u32(code_point)
             THEN Step("continue", [cm EXCEPT !.map = map_one(@, src, code_point)], 2)
             ELSE Step("continue",
                       [cm EXCEPT !.map = map_one(@, src, bf_string_char(dst_str.str))], 2)
        ELSE Step("continue",
                  [cm EXCEPT !.map = map_one(@, src, bf_string_char(dst_str.str))], 2)

\* The tokens of `[ ... ]` from the k-th on: <<array, tokens read>>.
RECURSIVE collect_array(_, _, _)
collect_array(toks, k, array) ==
    LET array_obj == Get(toks, k)
        val_str == expect_string(array_obj)
    IN  IF array_obj = Command("]") \/ array_obj = Eof THEN <<array, k>>
        ELSE IF array_obj.type = "Integer"
        THEN collect_array(toks, k + 1, Append(array, i32_as_u32(array_obj.int)))
        ELSE IF val_str.some
        THEN collect_array(toks, k + 1, Append(array, bf_string_char(val_str.str)))
        ELSE collect_array(toks, k + 1, array)

parse_bf_range(cm, toks) ==
    LET obj == Get(toks, 1)
        low_str == expect_string(obj)
        low == str_to_int(low_str.str)
        high_str == expect_string(Get(toks, 2))
        high == str_to_int(high_str.str)
        dst_obj == Get(toks, 3)
        dst_str == expect_string(dst_obj)
        arr == collect_array(toks, 4, <<>>)
    IN  IF obj = Eof THEN Step("break", cm, 1)
        ELSE IF obj = Command("endbfrange") THEN Step("return", cm, 1)
        ELSE IF ~low_str.some THEN Step("none", cm, 1)
        ELSE IF ~high_str.some THEN Step("none", cm, 2)
        ELSE IF dst_obj.type = "Integer"
        THEN Built(cm, map_bf_range(cm.map, low, high, <<dst_obj.int % 256>>), 3)
        ELSE IF dst_str.some
        THEN Built(cm, map_bf_range(cm.map, low, high, dst_str.str), 3)
        ELSE IF dst_obj = Command("[")
        THEN Built(cm, map_bf_range_to_array(cm.map, low, high, arr[1]), arr[2])
        ELSE Step("none", cm, 3)

parse_cid_char(cm, toks) ==
    LET obj == Get(toks, 1)
        src_str == expect_string(obj)
        src == str_to_int(src_str.str)
        dst == expect_int(Get(toks, 2))
    IN  IF obj = Eof THEN Step("break", cm, 1)
        ELSE IF obj = Command("endcidchar") THEN Step("return", cm, 1)
        ELSE IF ~src_str.some THEN Step("none", cm, 1)
        ELSE IF ~dst.some THEN Step("none", cm, 2)
        ELSE Step("continue", [cm EXCEPT !.map = map_one(@, src, i32_as_u32(dst.int))], 2)

parse_cid_range(cm, toks) ==
    LET obj == Get(toks, 1)
        low_str == expect_string(obj)
        low == str_to_int(low_str.str)
        high_str == expect_string(Get(toks, 2))
        high == str_to_int(high_str.str)
        dst_low == expect_int(Get(toks, 3))
    IN  IF obj = Eof THEN Step("break", cm, 1)
        ELSE IF obj = Command("endcidrange") THEN Step("return", cm, 1)
        ELSE IF ~low_str.some THEN Step("none", cm, 1)
        ELSE IF ~high_str.some THEN Step("none", cm, 2)
        ELSE IF ~dst_low.some THEN Step("none", cm, 3)
        ELSE Built(cm, map_cid_range(cm.map, low, high, i32_as_u32(dst_low.int)), 3)

parse_codespace_range(cm, toks) ==
    LET obj == Get(toks, 1)
        low_str == expect_string(obj)
        low == str_to_int(low_str.str)
        high_str == expect_string(Get(toks, 2))
        high == str_to_int(high_str.str)
    IN  IF obj = Eof THEN Step("break", cm, 1)
        ELSE IF obj = Command("endcodespacerange") THEN Step("return", cm, 1)
        ELSE IF ~low_str.some THEN Step("none", cm, 1)
        ELSE IF low_str.str = <<>> THEN Step("continue", cm, 1)
        ELSE IF ~high_str.some THEN Step("none", cm, 2)
        ELSE IF high_str.str = <<>> THEN Step("none", cm, 2)
        ELSE Step("continue", add_codespace_range(cm, Len(high_str.str), low, high), 2)

\* parse_wmode that reads the token and leaves the writing mode as it is.
parse_wmode_ignoring(cm, obj) == cm

parse_wmode(cm, obj) ==
    IF expect_int(obj).some THEN [cm EXCEPT !.vertical = (expect_int(obj).int # 0)] ELSE cm

parse_cmap_name(cm, obj) ==
    IF obj.type = "Name" THEN [cm EXCEPT !.name = obj.text] ELSE cm

\* parse_cmap that takes the command `end` for `endcmap`.
parse_cmap_end_breaks(cm, toks) ==
    LET obj == Get(toks, 1)
    IN  IF obj = Eof THEN Step("done", cm, 1)
        ELSE IF obj.type = "Name"
        THEN IF obj.text = "WMode" THEN Step("continue", parse_wmode(cm, Get(toks, 2)), 2)
             ELSE IF obj.text = "CMapName"
             THEN Step("continue", parse_cmap_name(cm, Get(toks, 2)), 2)
             ELSE Step("continue", cm, 1)
        ELSE IF obj.type = "Command"
        THEN IF obj.text \in {"endcmap", "end"} THEN Step("done", cm, 1)
             ELSE IF obj.text = "begincodespacerange" THEN Step("codespacerange", cm, 1)
             ELSE IF obj.text = "beginbfchar" THEN Step("bfchar", cm, 1)
             ELSE IF obj.text = "begincidchar" THEN Step("cidchar", cm, 1)
             ELSE IF obj.text = "beginbfrange" THEN Step("bfrange", cm, 1)
             ELSE IF obj.text = "begincidrange" THEN Step("cidrange", cm, 1)
             ELSE Step("continue", cm, 1)
        ELSE Step("continue", cm, 1)

\* One iteration of the loop of parse_cmap: ctl is "continue", "done" (Eof or
\* endcmap: Some(cmap)) or the block whose parse_... function is entered.
parse_cmap(cm, toks) ==
    LET obj == Get(toks, 1)
    IN  IF obj = Eof THEN Step("done", cm, 1)
        ELSE IF obj.type = "Name"
        THEN IF obj.text = "WMode" THEN Step("continue", parse_wmode(cm, Get(toks, 2)), 2)
             ELSE IF obj.text = "CMapName"
             THEN Step("continue", parse_cmap_name(cm, Get(toks, 2)), 2)
             ELSE Step("continue", cm, 1)
        ELSE IF obj.type = "Command"
        THEN IF obj.text = "endcmap" THEN Step("done", cm, 1)
             ELSE IF obj.text = "begincodespacerange" THEN Step("codespacerange", cm, 1)
             ELSE IF obj.text = "beginbfchar" THEN Step("bfchar", cm, 1)
             ELSE IF obj.text = "begincidchar" THEN Step("cidchar", cm, 1)
             ELSE IF obj.text = "beginbfrange" THEN Step("bfrange", cm, 1)
             ELSE IF obj.text = "begincidrange" THEN Step("cidrange", cm, 1)
             ELSE Step("continue", cm, 1)
        ELSE Step("continue", cm, 1)

-----------------------------------------------------------------------------
(* BinaryCMapStream.  A stream is its buffer and pos; end is the buffer's     *)
(* length.  A reader returns what it read and the pos it leaves.              *)

MAX_NUM_SIZE == 16

MAX_ENCODED_NUM_SIZE == MAX_NUM_SIZE

\* vec![0u8; MAX_NUM_SIZE]
ZeroBuf == [i \in 1..MAX_NUM_SIZE |-> 0]

\* -1 at the end of the buffer.
read_byte(buffer, pos) ==
    IF pos >= Len(buffer) THEN [b |-> -1, pos |-> pos]
    ELSE [b |-> buffer[pos + 1], pos |-> pos + 1]

\* (n << 7) | septet on u32: the bits shifted out are lost.
shl7_or(n, septet) ==
    <<((n[1] * 128) % Half) + (n[2] \div 512), ((n[2] * 128) % Half) + septet>>

Ok(val, pos) == [err |-> FALSE, val |-> val, pos |-> pos]

Err(pos) == [err |-> TRUE, val |-> <<0, 0>>, pos |-> pos]

\* read_number that shifts by 8 bits for each byte.
RECURSIVE read_number_octets(_, _, _)
read_number_octets(buffer, pos, n) ==
    LET r == read_byte(buffer, pos)
    IN  IF r.b < 0 THEN Err(r.pos)
        ELSE IF r.b < 128 THEN Ok(shl8_or(n, r.b % 128), r.pos)
        ELSE read_number_octets(buffer, r.pos, shl8_or(n, r.b % 128))

\* The loop of read_number, with n accumulated so far.
RECURSIVE read_number_loop(_, _, _)
read_number_loop(buffer, pos, n) ==
    LET r == read_byte(buffer, pos)
    IN  IF r.b < 0 THEN Err(r.pos)
        ELSE IF r.b < 128 THEN Ok(shl7_or(n, r.b % 128), r.pos)
        ELSE read_number_loop(buffer, r.pos, shl7_or(n, r.b % 128))

read_number(buffer, pos) == read_number_loop(buffer, pos, U32(0))

\* (n >> 1) as i32
shr1(n) == ((n[1] \div 2) * Half) + ((n[1] % 2) * 32768) + (n[2] \div 2)

\* read_signed with -(n >> 1) for !(n >> 1).
read_signed_negating(buffer, pos) ==
    LET r == read_number(buffer, pos)
    IN  IF r.err THEN r
        ELSE Ok(IF r.val[2] % 2 # 0 THEN -shr1(r.val) ELSE shr1(r.val), r.pos)

\* `!x` on i32 is -x - 1.
read_signed(buffer, pos) ==
    LET r == read_number(buffer, pos)
    IN  IF r.err THEN r
        ELSE Ok(IF r.val[2] % 2 # 0 THEN (-shr1(r.val)) - 1 ELSE shr1(r.val), r.pos)

\* read_hex: size + 1 raw bytes into num[0..=size].
read_hex(buffer, pos, num, size) ==
    IF pos + size + 1 > Len(buffer) THEN [err |-> TRUE, num |-> num, pos |-> pos]
    ELSE [err |-> FALSE,
          num |-> [i \in 1..Len(num) |->
                      IF i <= Min(size + 1, Len(num)) THEN buffer[pos + i] ELSE num[i]],
          pos |-> pos + size + 1]

\* The first loop of read_hex_number: the septets pushed on tmp_buf.
RECURSIVE read_septets(_, _, _)
read_septets(buffer, pos, tmp_buf) ==
    LET r == read_byte(buffer, pos)
        pushed == IF Len(tmp_buf) < MAX_ENCODED_NUM_SIZE
                  THEN Append(tmp_buf, r.b % 128) ELSE tmp_buf
    IN  IF r.b < 0 THEN [err |-> TRUE, tmp_buf |-> tmp_buf, pos |-> r.pos]
        ELSE IF r.b < 128 THEN [err |-> FALSE, tmp_buf |-> pushed, pos |-> r.pos]
        ELSE read_septets(buffer, r.pos, pushed)

\* fill_bits that counts 8 bits for each septet.
RECURSIVE fill_bits_octets(_, _, _)
fill_bits_octets(tmp_buf, buffer, buffer_size) ==
    IF buffer_size < 8 /\ tmp_buf # <<>>
    THEN fill_bits_octets(SubSeq(tmp_buf, 1, Len(tmp_buf) - 1),
                          buffer + (tmp_buf[Len(tmp_buf)] * (2 ^ buffer_size)),
                          buffer_size + 8)
    ELSE [tmp_buf |-> tmp_buf, buffer |-> buffer, buffer_size |-> buffer_size]

\* `while buffer_size < 8 && !tmp_buf.is_empty()`
RECURSIVE fill_bits(_, _, _)
fill_bits(tmp_buf, buffer, buffer_size) ==
    IF buffer_size < 8 /\ tmp_buf # <<>>
    THEN fill_bits(SubSeq(tmp_buf, 1, Len(tmp_buf) - 1),
                   buffer + (tmp_buf[Len(tmp_buf)] * (2 ^ buffer_size)),
                   buffer_size + 7)
    ELSE [tmp_buf |-> tmp_buf, buffer |-> buffer, buffer_size |-> buffer_size]

\* `while i >= 0`: the bytes of num from index i (0-based) down to 0.
RECURSIVE pack_bytes(_, _, _, _, _)
pack_bytes(num, tmp_buf, i, buffer, buffer_size) ==
    IF i < 0 THEN num
    ELSE LET f == fill_bits(tmp_buf, buffer, buffer_size)
             written == IF i < Len(num) THEN [num EXCEPT ![i + 1] = f.buffer % 256]
                        ELSE num
         IN  pack_bytes(written, f.tmp_buf, i - 1, f.buffer \div 256, f.buffer_size - 8)

read_hex_number(buffer, pos, num, size) ==
    LET s == read_septets(buffer, pos, <<>>)
    IN  IF s.err THEN [err |-> TRUE, num |-> num, pos |-> s.pos]
        ELSE [err |-> FALSE, num |-> pack_bytes(num, s.tmp_buf, size, 0, 0),
              pos |-> s.pos]

\* x ^ sign for sign 0 or 255, on a byte.
xor_sign(x, sign) == IF sign = 255 THEN 255 - x ELSE x

\* The loop of read_hex_signed over i in 0..=size (0-based), c carried along.
RECURSIVE shift_right_signed(_, _, _, _, _)
shift_right_signed(num, i, size, c, sign) ==
    IF i > size THEN num
    ELSE IF i < Len(num)
    THEN LET c2 == ((c % 2) * 256) + num[i + 1]
         IN  shift_right_signed([num EXCEPT ![i + 1] = xor_sign((c2 \div 2) % 256, sign)],
                                i + 1, size, c2, sign)
    ELSE shift_right_signed(num, i + 1, size, c, sign)

\* read_hex_signed that does not apply the sign.
read_hex_signed_unsigned(buffer, pos, num, size) ==
    LET r == read_hex_number(buffer, pos, num, size)
    IN  IF r.err THEN r
        ELSE [r EXCEPT !.num = shift_right_signed(r.num, 0, size, 0, 0)]

read_hex_signed(buffer, pos, num, size) ==
    LET r == read_hex_number(buffer, pos, num, size)
        sign == IF size < Len(r.num) /\ r.num[size + 1] % 2 # 0 THEN 255 ELSE 0
    IN  IF r.err THEN r
        ELSE [r EXCEPT !.num = shift_right_signed(r.num, 0, size, 0, sign)]

\* `for _ in 0..len`, with the numbers still to read; the bytes kept are
\* those <= 255.  The string itself is dropped by the callers.
RECURSIVE read_string_loop(_, _, _)
read_string_loop(buffer, pos, remaining) ==
    LET r == read_number(buffer, pos)
    IN  IF remaining = U32(0) THEN [err |-> FALSE, pos |-> pos]
        ELSE IF r.err THEN [err |-> TRUE, pos |-> r.pos]
        ELSE read_string_loop(buffer, r.pos, wrapping_sub(remaining, U32(1)))

read_string(buffer, pos) ==
    LET len == read_number(buffer, pos)
    IN  IF len.err THEN [err |-> TRUE, pos |-> len.pos]
        ELSE read_string_loop(buffer, len.pos, len.val)

-----------------------------------------------------------------------------
(* BinaryCMapReader::process.  The five buffers are modelled per record: a    *)
(* record's first item overwrites the bytes 0..=size it goes on to use, and   *)
(* no reader or hex function looks at the bytes above size.                   *)

RECURSIVE hex_to_int_from(_, _, _, _)
hex_to_int_from(a, size, i, n) ==
    IF i > size THEN n
    ELSE hex_to_int_from(a, size, i + 1, IF i < Len(a) THEN shl8_or(n, a[i + 1]) ELSE n)

hex_to_int(a, size) == hex_to_int_from(a, size, 0, U32(0))

hex_to_str(a, size) ==
    from_utf8_lossy(IF size + 1 <= Len(a) THEN SubSeq(a, 1, size + 1) ELSE a)

\* The loop of add_hex from index i (0-based) down, with carry c.
RECURSIVE add_hex_from(_, _, _, _)
add_hex_from(a, b, i, c) ==
    IF i < 0 THEN a
    ELSE IF i < Len(a) /\ i < Len(b)
    THEN add_hex_from([a EXCEPT ![i + 1] = (c + a[i + 1] + b[i + 1]) % 256], b, i - 1,
                      (c + a[i + 1] + b[i + 1]) \div 256)
    ELSE add_hex_from(a, b, i - 1, c)

add_hex(a, b, size) == add_hex_from(a, b, size, 0)

RECURSIVE inc_hex_from(_, _, _)
inc_hex_from(a, i, c) ==
    IF i < 0 THEN a
    ELSE IF i < Len(a) /\ c > 0
    THEN inc_hex_from([a EXCEPT ![i + 1] = (c + a[i + 1]) % 256], i - 1,
                      (c + a[i + 1]) \div 256)
    ELSE inc_hex_from(a, i - 1, c)

inc_hex(a, size) == inc_hex_from(a, size, 1)

\* How far a record got: status is "ok", "eof" (a reader's Err), "err" (unknown
\* type), "panic" or "hang"; pos is the stream's pos.
Rec(status, cm, pos) == [status |-> status, cmap |-> cm, pos |-> pos]

\* Dropped with the builder's None kept, as `?` would.
Dropped_propagated(out) == IF out.status = "ok" THEN "ok" ELSE out.status

\* The result of a range builder, which process drops: only a panic or a loop
\* that does not end is not dropped.
Dropped(out) == IF out.status \in {"panic", "hang"} THEN out.status ELSE "ok"

\* `for _i in 1..subitems_count`: the iterations left after the first item.
Remaining(subitems_count) ==
    IF subitems_count = U32(0) THEN U32(0) ELSE wrapping_sub(subitems_count, U32(1))

\* A range as read so far: the buffers start and end, and the stream's pos.
Range(err, pos, start, end) == [err |-> err, pos |-> pos, start |-> start, end |-> end]

\* `read_hex_number(&mut end, size)?; add_hex(&mut end, &start, size)`, e being
\* what read_hex_number returned.
range_end(start, e, size) ==
    IF e.err THEN Range(TRUE, e.pos, start, e.num)
    ELSE Range(FALSE, e.pos, start, add_hex(e.num, start, size))

\* s is what the reading of start returned, with start in s.num.
range_from(buffer, s, end, size) ==
    IF s.err THEN Range(TRUE, s.pos, s.num, end)
    ELSE range_end(s.num, read_hex_number(buffer, s.pos, end, size), size)

\* The first (start, end) of a record: read_hex, read_hex_number, add_hex.
first_range(buffer, pos, size) ==
    range_from(buffer, read_hex(buffer, pos, ZeroBuf, size), ZeroBuf, size)

\* `add_hex(&mut start, &end, size)` on what read_hex_number(&mut start) returned.
start_added(s, end, size) ==
    IF s.err THEN s ELSE [s EXCEPT !.num = add_hex(@, end, size)]

\* The next (start, end), end being incremented already: start is end (copy) or
\* read and added to end, then end is read and added to start.
next_range_from(buffer, pos, start, end, size, copy) ==
    range_from(buffer,
               IF copy THEN [err |-> FALSE, num |-> end, pos |-> pos]
               ELSE start_added(read_hex_number(buffer, pos, start, size), end, size),
               end, size)

next_range(buffer, pos, start, end, size, copy) ==
    next_range_from(buffer, pos, start, inc_hex(end, size), size, copy)

\* `add_hex(&mut char, &tmp, size)` on what read_hex_number(&mut tmp) returned.
char_added(t, char, size) ==
    IF t.err THEN t ELSE [t EXCEPT !.num = add_hex(char, @, size)]

\* The next char of a cidchar or bfchar record: inc_hex, and unless the record
\* is a sequence a number read into tmp and added.
next_char(buffer, pos, char, size, sequence) ==
    IF sequence THEN [err |-> FALSE, num |-> inc_hex(char, size), pos |-> pos]
    ELSE char_added(read_hex_number(buffer, pos, ZeroBuf, size), inc_hex(char, size), size)

RECURSIVE codespacerange_items(_, _, _, _, _, _, _)
\* type 0: the range r is read.
codespacerange_item(buffer, cm, r, data_size, left) ==
    IF r.err THEN Rec("eof", cm, r.pos)
    ELSE codespacerange_items(
             buffer, r.pos,
             add_codespace_range(cm, data_size + 1, hex_to_int(r.start, data_size),
                                 hex_to_int(r.end, data_size)),
             r.start, r.end, data_size, left)

\* type 0: the items after the first.
codespacerange_items(buffer, pos, cm, start, end, data_size, remaining) ==
    IF remaining = U32(0) THEN Rec("ok", cm, pos)
    ELSE codespacerange_item(buffer, cm,
                             next_range(buffer, pos, start, end, data_size, FALSE),
                             data_size, wrapping_sub(remaining, U32(1)))

codespacerange_record(buffer, pos, cm, data_size, subitems_count) ==
    codespacerange_item(buffer, cm, first_range(buffer, pos, data_size), data_size,
                        Remaining(subitems_count))

RECURSIVE notdefrange_items(_, _, _, _, _, _, _)
\* type 1: the range r and the code are read.
notdefrange_code(buffer, cm, r, code, data_size, left) ==
    IF code.err THEN Rec("eof", cm, code.pos)
    ELSE notdefrange_items(buffer, code.pos, cm, r.start, r.end, data_size, left)

\* type 1: the range r is read.
notdefrange_item(buffer, cm, r, data_size, left) ==
    IF r.err THEN Rec("eof", cm, r.pos)
    ELSE notdefrange_code(buffer, cm, r, read_number(buffer, r.pos), data_size, left)

\* type 1: the items after the first.
notdefrange_items(buffer, pos, cm, start, end, data_size, remaining) ==
    IF remaining = U32(0) THEN Rec("ok", cm, pos)
    ELSE notdefrange_item(buffer, cm,
                          next_range(buffer, pos, start, end, data_size, FALSE),
                          data_size, wrapping_sub(remaining, U32(1)))

notdefrange_record(buffer, pos, cm, data_size, subitems_count) ==
    notdefrange_item(buffer, cm, first_range(buffer, pos, data_size), data_size,
                     Remaining(subitems_count))

RECURSIVE cidchar_items(_, _, _, _, _, _, _, _)
\* type 2: `cmap.map_one(hex_to_int(&char, data_size), code)`, and on.
cidchar_mapped(buffer, pos, cm, char, code, data_size, sequence, left) ==
    cidchar_items(buffer, pos,
                  [cm EXCEPT !.map = map_one(@, hex_to_int(char, data_size), code)],
                  char, code, data_size, sequence, left)

\* cidchar_delta with `code + delta` for `code + delta + 1`.
cidchar_delta_without_one(buffer, cm, char, code, delta, data_size, sequence, left) ==
    IF delta.err THEN Rec("eof", cm, delta.pos)
    ELSE cidchar_mapped(buffer, delta.pos, cm, char,
                        wrapping_add(code, i32_as_u32(delta.val)),
                        data_size, sequence, left)

\* type 2: `code = ((code as i64) + (delta as i64) + 1) as u32`.
cidchar_delta(buffer, cm, char, code, delta, data_size, sequence, left) ==
    IF delta.err THEN Rec("eof", cm, delta.pos)
    ELSE cidchar_mapped(buffer, delta.pos, cm, char,
                        wrapping_add(wrapping_add(code, i32_as_u32(delta.val)), U32(1)),
                        data_size, sequence, left)

\* type 2: the char c of an item after the first is read.
cidchar_next(buffer, cm, c, code, data_size, sequence, left) ==
    IF c.err THEN Rec("eof", cm, c.pos)
    ELSE cidchar_delta(buffer, cm, c.num, code, read_signed(buffer, c.pos), data_size,
                       sequence, left)

\* type 2: the items after the first.
cidchar_items(buffer, pos, cm, char, code, data_size, sequence, remaining) ==
    IF remaining = U32(0) THEN Rec("ok", cm, pos)
    ELSE cidchar_next(buffer, cm, next_char(buffer, pos, char, data_size, sequence),
                      code, data_size, sequence, wrapping_sub(remaining, U32(1)))

\* type 2: the code of the first item is read.
cidchar_first_code(buffer, cm, char, code, data_size, sequence, left) ==
    IF code.err THEN Rec("eof", cm, code.pos)
    ELSE cidchar_mapped(buffer, code.pos, cm, char, code.val, data_size, sequence, left)

\* type 2: the char c of the first item is read.
cidchar_first(buffer, cm, c, data_size, sequence, left) ==
    IF c.err THEN Rec("eof", cm, c.pos)
    ELSE cidchar_first_code(buffer, cm, c.num, read_number(buffer, c.pos), data_size,
                            sequence, left)

cidchar_record(buffer, pos, cm, data_size, sequence, subitems_count) ==
    cidchar_first(buffer, cm, read_hex(buffer, pos, ZeroBuf, data_size), data_size,
                  sequence, Remaining(subitems_count))

RECURSIVE cidrange_items(_, _, _, _, _, _, _, _)
\* type 3: map_cid_range returned out.
cidrange_mapped(buffer, pos, cm, r, out, data_size, sequence, left) ==
    IF Dropped(out) # "ok" THEN Rec(Dropped(out), [cm EXCEPT !.map = out.map], pos)
    ELSE cidrange_items(buffer, pos, [cm EXCEPT !.map = out.map], r.start, r.end,
                        data_size, sequence, left)

\* type 3: the range r and the code are read.
cidrange_code(buffer, cm, r, code, data_size, sequence, left) ==
    IF code.err THEN Rec("eof", cm, code.pos)
    ELSE cidrange_mapped(buffer, code.pos, cm, r,
                         map_cid_range(cm.map, hex_to_int(r.start, data_size),
                                       hex_to_int(r.end, data_size), code.val),
                         data_size, sequence, left)

\* type 3: the range r is read.
cidrange_item(buffer, cm, r, data_size, sequence, left) ==
    IF r.err THEN Rec("eof", cm, r.pos)
    ELSE cidrange_code(buffer, cm, r, read_number(buffer, r.pos), data_size, sequence,
                       left)

\* type 3: the items after the first.
cidrange_items(buffer, pos, cm, start, end, data_size, sequence, remaining) ==
    IF remaining = U32(0) THEN Rec("ok", cm, pos)
    ELSE cidrange_item(buffer, cm,
                       next_range(buffer, pos, start, end, data_size, sequence),
                       data_size, sequence, wrapping_sub(remaining, U32(1)))

cidrange_record(buffer, pos, cm, data_size, sequence, subitems_count) ==
    cidrange_item(buffer, cm, first_range(buffer, pos, data_size), data_size, sequence,
                  Remaining(subitems_count))

ucs2_data_size == 1

RECURSIVE bfchar_items(_, _, _, _, _, _, _, _)
\* type 4: `cmap.map_one(src, bf_string_char(&dst_str))`, and on.
bfchar_mapped(buffer, pos, cm, char, char_code, data_size, sequence, left) ==
    bfchar_items(buffer, pos,
                 [cm EXCEPT !.map = map_one(@, hex_to_int(char, ucs2_data_size),
                                            bf_string_char(hex_to_str(char_code, data_size)))],
                 char, char_code, data_size, sequence, left)

\* type 4: `add_hex(&mut char_code, &tmp, data_size)`, d being what
\* read_hex_signed(&mut tmp) returned and char_code being incremented already.
bfchar_delta(buffer, cm, char, char_code, d, data_size, sequence, left) ==
    IF d.err THEN Rec("eof", cm, d.pos)
    ELSE bfchar_mapped(buffer, d.pos, cm, char, add_hex(char_code, d.num, data_size),
                       data_size, sequence, left)

\* type 4: the char c of an item after the first is read.
bfchar_next(buffer, cm, c, char_code, data_size, sequence, left) ==
    IF c.err THEN Rec("eof", cm, c.pos)
    ELSE bfchar_delta(buffer, cm, c.num, inc_hex(char_code, data_size),
                      read_hex_signed(buffer, c.pos, ZeroBuf, data_size), data_size,
                      sequence, left)

\* type 4: the items after the first.
bfchar_items(buffer, pos, cm, char, char_code, data_size, sequence, remaining) ==
    IF remaining = U32(0) THEN Rec("ok", cm, pos)
    ELSE bfchar_next(buffer, cm, next_char(buffer, pos, char, ucs2_data_size, sequence),
                     char_code, data_size, sequence, wrapping_sub(remaining, U32(1)))

\* type 4: the char_code cc of the first item is read.
bfchar_first_code(buffer, cm, char, cc, data_size, sequence, left) ==
    IF cc.err THEN Rec("eof", cm, cc.pos)
    ELSE bfchar_mapped(buffer, cc.pos, cm, char, cc.num, data_size, sequence, left)

\* type 4: the char c of the first item is read.
bfchar_first(buffer, cm, c, data_size, sequence, left) ==
    IF c.err THEN Rec("eof", cm, c.pos)
    ELSE bfchar_first_code(buffer, cm, c.num,
                           read_hex(buffer, c.pos, ZeroBuf, data_size), data_size,
                           sequence, left)

bfchar_record(buffer, pos, cm, data_size, sequence, subitems_count) ==
    bfchar_first(buffer, cm, read_hex(buffer, pos, ZeroBuf, ucs2_data_size), data_size,
                 sequence, Remaining(subitems_count))

RECURSIVE bfrange_items(_, _, _, _, _, _, _, _)
\* type 5: map_bf_range returned out.
bfrange_mapped(buffer, pos, cm, r, out, data_size, sequence, left) ==
    IF Dropped(out) # "ok" THEN Rec(Dropped(out), [cm EXCEPT !.map = out.map], pos)
    ELSE bfrange_items(buffer, pos, [cm EXCEPT !.map = out.map], r.start, r.end,
                       data_size, sequence, left)

\* type 5: the range r and the char_code cc are read.
bfrange_code(buffer, cm, r, cc, data_size, sequence, left) ==
    IF cc.err THEN Rec("eof", cm, cc.pos)
    ELSE bfrange_mapped(buffer, cc.pos, cm, r,
                        map_bf_range(cm.map, hex_to_int(r.start, ucs2_data_size),
                                     hex_to_int(r.end, ucs2_data_size),
                                     hex_to_str(cc.num, data_size)),
                        data_size, sequence, left)

\* type 5: the range r is read.
bfrange_item(buffer, cm, r, data_size, sequence, left) ==
    IF r.err THEN Rec("eof", cm, r.pos)
    ELSE bfrange_code(buffer, cm, r, read_hex(buffer, r.pos, ZeroBuf, data_size),
                      data_size, sequence, left)

\* type 5: the items after the first.
bfrange_items(buffer, pos, cm, start, end, data_size, sequence, remaining) ==
    IF remaining = U32(0) THEN Rec("ok", cm, pos)
    ELSE bfrange_item(buffer, cm,
                      next_range(buffer, pos, start, end, ucs2_data_size, sequence),
                      data_size, sequence, wrapping_sub(remaining, U32(1)))

bfrange_record(buffer, pos, cm, data_size, sequence, subitems_count) ==
    bfrange_item(buffer, cm, first_range(buffer, pos, ucs2_data_size), data_size,
                 sequence, Remaining(subitems_count))

\* type 7: str is what read_string returned; the string is dropped.
metadata_read(cm, str) == Rec(IF str.err THEN "eof" ELSE "ok", cm, str.pos)

\* type 7: a comment (0) or usecmap (1) string is read, anything else is not.
metadata_record(buffer, pos, cm, b) ==
    IF b % 32 \in {0, 1} THEN metadata_read(cm, read_string(buffer, pos))
    ELSE Rec("ok", cm, pos)

\* `match type_val`, subitems_count being what read_number returned.
process_items(cm, buffer, type_val, sequence, data_size, subitems_count) ==
    IF subitems_count.err THEN Rec("eof", cm, subitems_count.pos)
    ELSE CASE type_val = 0 ->
                codespacerange_record(buffer, subitems_count.pos, cm, data_size,
                                      subitems_count.val)
           [] type_val = 1 ->
                notdefrange_record(buffer, subitems_count.pos, cm, data_size,
                                   subitems_count.val)
           [] type_val = 2 ->
                cidchar_record(buffer, subitems_count.pos, cm, data_size, sequence,
                               subitems_count.val)
           [] type_val = 3 ->
                cidrange_record(buffer, subitems_count.pos, cm, data_size, sequence,
                                subitems_count.val)
           [] type_val = 4 ->
                bfchar_record(buffer, subitems_count.pos, cm, data_size, sequence,
                              subitems_count.val)
           [] type_val = 5 ->
                bfrange_record(buffer, subitems_count.pos, cm, data_size, sequence,
                               subitems_count.val)
           [] OTHER -> Rec("err", cm, subitems_count.pos)

\* One iteration of the loop of process after its read_byte returned b >= 0:
\* buffer holds the stream from that byte on.
process_record(cm, buffer) ==
    LET b == buffer[1]
        type_val == (b \div 32) % 8
    IN  IF type_val = 7 THEN metadata_record(buffer, 1, cm, b)
        ELSE IF (b % 16) + 1 > MAX_NUM_SIZE THEN Rec("err", cm, 1)
        ELSE process_items(cm, buffer, type_val, (b \div 16) % 2 # 0, b % 16,
                           read_number(buffer, 1))

-----------------------------------------------------------------------------
(* The inputs.  A run of family "stream" calls a reader of BinaryCMapStream    *)
(* on a buffer of up to MaxStreamLen bytes, or on one of LongStreams.  A run  *)
(* of the other families parses a text:                 *)
(*   "entry"     one mapping entry, its tokens drawn from the wide sets;      *)
(*   "sequence"  up to MaxEntries entries of any block, from the narrow sets, *)
(*               between /WMode, /CMapName and ignored tokens;                *)
(*   "codespace" up to MaxEntries codespace ranges, after which the caller    *)
(*               reads codes from buffers of up to MaxBufLen bytes.           *)

Families == {"entry", "sequence", "codespace", "stream", "binary", "lexer"}

EntryLimit == IF family = "entry" THEN 1 ELSE MaxEntries

WideSrcStrings == {<<3>>, <<5>>, <<0, 0, 0, 0>>, <<255, 255, 255, 255>>}
NarrowSrcStrings == {<<4>>, <<255, 255, 255, 255>>}
SrcStrings == IF family = "entry" THEN WideSrcStrings ELSE NarrowSrcStrings

WideDstStrings ==
    {<<>>, <<65>>, <<255>>, <<0, 255>>, <<18, 52>>, <<216, 0>>, <<65, 66, 67>>}
NarrowDstStrings == {<<66>>}
DstStrings == IF family = "entry" THEN WideDstStrings ELSE NarrowDstStrings

WideInts == {-1, 0, 126, 190}
NarrowInts == {7}
Ints == IF family = "entry" THEN WideInts ELSE NarrowInts

WideArrays ==
    {<<Command("]")>>,
     <<Integer(7), Command("]")>>,
     <<Integer(7), Integer(8), Integer(9), Integer(10), Command("]")>>,
     <<HexString(<<65, 66>>), Command("def"), Integer(-1), Eof>>}
NarrowArrays == {<<Integer(9), Integer(9), Command("]")>>}
Arrays == IF family = "entry" THEN WideArrays ELSE NarrowArrays

WideCodespaceStrings == {<<>>, <<0>>, <<255>>, <<255, 255>>, <<0, 0, 0, 0, 0>>}
NarrowCodespaceStrings == {<<0>>, <<255, 255>>}
CodespaceStrings ==
    IF family = "codespace" THEN WideCodespaceStrings ELSE NarrowCodespaceStrings

ReadBytes == {0, 255}

Hex(S) == {HexString(b) : b \in S}

\* What the lexer can return: only Eof once it has returned Eof.
Lex(A) == IF eof THEN {Eof} ELSE A

\* A token of the wrong kind for its position, in the families that hold them.
Wrong(A) == IF family = "sequence" THEN {} ELSE A

\* The first token of a block iteration: the input holds at most EntryLimit entries.
FirstOf(A, endcmd) ==
    Lex(IF entries >= EntryLimit THEN {Eof, Command(endcmd)}
        ELSE A \cup {Eof, Command(endcmd)} \cup Wrong({Integer(0)}))

SrcPos == Lex(Hex(SrcStrings) \cup {Eof} \cup Wrong({Integer(0)}))

Seqs1(A) == {<<a>> : a \in A}
Seqs2(A, B) == {<<a, b>> : a \in A, b \in B}
Seqs3(A, B, C) == {<<a, b, c>> : a \in A, b \in B, c \in C}

BfCharReads ==
    LET A == FirstOf(Hex(SrcStrings), "endbfchar")
        B == Lex(Hex(DstStrings) \cup {Eof} \cup Wrong({String(<<40, 41>>), Integer(0)}))
    IN  Seqs1(A) \cup Seqs2(A, B)

CidCharReads ==
    LET A == FirstOf(Hex(SrcStrings), "endcidchar")
        B == Lex({Integer(i) : i \in Ints} \cup {Eof} \cup Wrong({HexString(<<3>>)}))
    IN  Seqs1(A) \cup Seqs2(A, B)

CidRangeReads ==
    LET A == FirstOf(Hex(SrcStrings), "endcidrange")
        C == Lex({Integer(i) : i \in Ints} \cup {Eof} \cup Wrong({HexString(<<3>>)}))
    IN  Seqs1(A) \cup Seqs2(A, SrcPos) \cup Seqs3(A, SrcPos, C)

BfRangeReads ==
    LET A == FirstOf(Hex(SrcStrings), "endbfrange")
        C == Lex({Integer(i) : i \in Ints} \cup Hex(DstStrings) \cup {Eof}
                 \cup Wrong({Command("def"), Name("x")}))
    IN  Seqs1(A) \cup Seqs2(A, SrcPos) \cup Seqs3(A, SrcPos, C)
        \cup {<<a, b, Command("[")>> \o body :
                a \in A, b \in SrcPos, body \in IF eof THEN {<<Eof>>} ELSE Arrays}

CodespaceRangeReads ==
    LET A == FirstOf(Hex(CodespaceStrings), "endcodespacerange")
        B == Lex(Hex(CodespaceStrings) \cup {Eof} \cup Wrong({Integer(0)}))
    IN  Seqs1(A) \cup Seqs2(A, B)

\* The commands that open the blocks of the family.
Begins ==
    IF family = "codespace" THEN {Command("begincodespacerange")}
    ELSE {Command("beginbfchar"), Command("begincidchar"),
          Command("beginbfrange"), Command("begincidrange")}
         \cup (IF family = "sequence" THEN {Command("begincodespacerange")} ELSE {})

\* Tokens parse_cmap ignores, and the tokens that may follow /WMode and /CMapName.
Noise ==
    {Command("def"), Command("dict"), Command("begin"), Command("end"),
     Command("findresource"), Command("<<"), Command(">>"), Command("pop"),
     Command("currentdict"), Command("defineresource"), Command("usecmap"),
     Command("foo"), Name("CIDInit"), Integer(12), HexString(<<3>>),
     String(<<40, 41>>)}

Ignored ==
    IF family = "sequence" THEN Noise \cup {Name("WMode"), Name("CMapName")} ELSE {}

AfterWMode == {Integer(0), Integer(1), Command("def"), Eof}

AfterCMapName == {Name("Identity-H"), Name("Identity-V"), Integer(1), Eof}

TopReads ==
    Seqs1(Lex({Eof, Command("endcmap")} \cup Begins \cup Ignored))
    \cup Seqs2(Lex(Ignored \cap {Name("WMode")}), Lex(AfterWMode))
    \cup Seqs2(Lex(Ignored \cap {Name("CMapName")}), Lex(AfterCMapName))

StreamBytes == {0, 127, 129, 255}

\* A number of MAX_ENCODED_NUM_SIZE bytes.
LongStreams == {[i \in 1..16 |-> IF i = 16 THEN 127 ELSE IF i = 12 THEN 129 ELSE 255]}

Streams == LongStreams \cup UNION {[1..n -> StreamBytes] : n \in 0..MaxStreamLen}

Sizes == 0..3

\* The blobs of family "binary": a header byte, then records.  A record starts
\* with the byte type * 32 + sequence * 16 + data_size.
Headers == {<<>>, <<0>>, <<1>>}

CodespaceRecords ==
    {<<0, 1, 0, 127>>,                      \* 1 byte: 00..7F
     <<0, 1, 255, 1>>,                      \* 1 byte: FF and a delta of 1
     <<1, 2, 0, 0, 129, 127, 1, 1>>,        \* 2 bytes: 0000..00FF, 0101..0102
     <<4, 1, 0, 0, 0, 0, 0, 1>>}            \* 5 bytes

NotdefRecords == {<<32, 1, 0, 0, 0>>, <<32, 2, 0, 0, 0, 1, 1, 0>>}

CidCharRecords ==
    {<<64, 1, 65, 5>>,                      \* 41 -> 5
     <<64, 2, 65, 5, 1, 2>>,                \* 41 -> 5, 43 -> 7
     <<80, 2, 65, 5, 1>>,                   \* sequence: 41 -> 5, 42 -> 5
     <<65, 1, 1, 0, 143, 255, 255, 255, 127>>,  \* 0100 -> FFFFFFFF
     <<81, 2, 1, 0, 143, 255, 255, 255, 127, 0>>,  \* sequence: then 0101 -> 0
     <<80, 2, 255, 0, 3>>}                  \* sequence: FF -> 0, 00 -> FFFFFFFF

CidRangeRecords ==
    {<<96, 1, 3, 2, 7>>,                    \* 03..05 -> 7
     <<96, 2, 255, 1, 7, 1, 1, 9>>,         \* FF and a delta of 1, then one more
     <<112, 2, 3, 1, 7, 1, 9>>,             \* sequence: 03..04 -> 7, 05..06 -> 9
     <<99, 1, 255, 255, 255, 255, 0, 7>>,   \* FFFFFFFF..FFFFFFFF
     <<99, 1, 0, 0, 0, 0, 136, 128, 128, 0, 0>>,  \* a span of 2^24
     <<99, 2, 0, 0, 0, 0, 136, 128, 128, 0, 0, 0, 1, 9>>}  \* then 01000001..01000002 -> 9

BfCharRecords ==
    {<<128, 1, 0, 65, 66>>,                 \* 0041 -> 42
     <<128, 1, 0, 65, 233>>,                \* 0041 -> E9
     <<128, 1, 0, 65, 255>>,                \* 0041 -> FF
     <<129, 1, 0, 65, 195, 169>>,           \* 0041 -> C3 A9
     <<129, 1, 0, 65, 0, 66>>,              \* 0041 -> 00 42
     <<144, 2, 0, 65, 66, 2>>,              \* sequence: 0041 -> 42, 0042 -> 44
     <<128, 2, 0, 65, 66, 1, 1>>}           \* 0041 -> 42, 0043 -> 42

BfRangeRecords ==
    {<<160, 1, 0, 3, 2, 65>>,               \* 0003..0005 -> 41
     <<160, 1, 0, 3, 1, 233>>,              \* 0003..0004 -> E9
     <<161, 1, 0, 3, 1, 195, 169>>,         \* 0003..0004 -> C3 A9
     <<160, 1, 255, 255, 1, 65>>,           \* FFFF and a delta of 1
     <<176, 2, 0, 3, 1, 65, 1, 97>>}        \* sequence: 0003..0004, 0005..0006

OtherRecords ==
    {<<192, 1>>,                            \* type 6
     <<224, 1, 65>>,                        \* a comment of one character
     <<225, 0>>,                            \* usecmap of the empty string
     <<226>>}                               \* other metadata

FirstRecords ==
    CodespaceRecords \cup NotdefRecords \cup CidCharRecords \cup CidRangeRecords
        \cup BfCharRecords \cup BfRangeRecords \cup OtherRecords

FollowRecords ==
    {<<0, 1, 255, 1>>, <<64, 1, 65, 5>>, <<112, 2, 3, 1, 7, 1, 9>>,
     <<128, 1, 0, 65, 233>>, <<160, 1, 0, 3, 2, 65>>, <<192, 1>>, <<224, 1, 65>>}

Records == IF entries = 0 THEN FirstRecords ELSE FollowRecords


ReadBuffers == UNION {[1..n -> ReadBytes] : n \in 0..MaxBufLen}

-----------------------------------------------------------------------------
(* CMapLexer: the tokens of a byte buffer.  The strings of the tokens are     *)
(* held as the sequences of their chars, a byte b pushed `as char` being the  *)
(* char of code point b.                                                      *)

CommandOf(chars) == Tok("Command", chars, 0, "")

NameOf(chars) == Tok("Name", chars, 0, "")

\* What a lexer method leaves: the token it returns and self.position.
Lexed(token, position) == [token |-> token, position |-> position]

\* u8::is_ascii_whitespace: space, \t, \n, form feed, \r.
is_ascii_whitespace(ch) == ch \in {32, 9, 10, 12, 13}

\* u8::is_ascii_hexdigit
is_ascii_hexdigit(ch) == ch \in (48..57) \cup (65..70) \cup (97..102)

\* The value of a hex digit, as u8::from_str_radix(.., 16) reads it.
hex_digit(ch) ==
    IF ch \in 48..57 THEN ch - 48 ELSE IF ch \in 65..70 THEN ch - 55 ELSE ch - 87

\* b"[]<>(){}/%".contains(&ch)
is_delimiter(ch) == ch \in {91, 93, 60, 62, 40, 41, 123, 125, 47, 37}

\* remaining.starts_with(prefix), remaining being input[position..]
starts_with(input, position, prefix) ==
    /\ position + Len(prefix) <= Len(input)
    /\ \A i \in 1..Len(prefix) : input[position + i] = prefix[i]

RECURSIVE skip_whitespace(_, _)
skip_whitespace(input, position) ==
    IF position < Len(input) /\ is_ascii_whitespace(input[position + 1])
    THEN skip_whitespace(input, position + 1)
    ELSE position

\* The loop of get_obj over a comment: up to and including the first \n or \r.
RECURSIVE skip_comment(_, _)
skip_comment(input, position) ==
    IF position >= Len(input) THEN position
    ELSE IF input[position + 1] \in {10, 13} THEN position + 1
    ELSE skip_comment(input, position + 1)

\* hex_bytes with an odd final digit d read as 0d.
RECURSIVE hex_bytes_low_nibble(_)
hex_bytes_low_nibble(hex_chars) ==
    IF hex_chars = <<>> THEN <<>>
    ELSE IF Len(hex_chars) = 1 THEN <<hex_digit(hex_chars[1])>>
    ELSE <<(16 * hex_digit(hex_chars[1])) + hex_digit(hex_chars[2])>>
         \o hex_bytes_low_nibble(SubSeq(hex_chars, 3, Len(hex_chars)))

\* `for chunk in hex_chars.chunks(2)`: a chunk of one digit d is read as "d0".
RECURSIVE hex_bytes(_)
hex_bytes(hex_chars) ==
    IF hex_chars = <<>> THEN <<>>
    ELSE IF Len(hex_chars) = 1 THEN <<16 * hex_digit(hex_chars[1])>>
    ELSE <<(16 * hex_digit(hex_chars[1])) + hex_digit(hex_chars[2])>>
         \o hex_bytes(SubSeq(hex_chars, 3, Len(hex_chars)))

\* The while loop of parse_hex_string and the conversion that follows it.
RECURSIVE hex_string_loop(_, _, _)
hex_string_loop(input, position, hex_chars) ==
    IF position >= Len(input) THEN Lexed(HexString(hex_bytes(hex_chars)), position)
    ELSE IF input[position + 1] = 62
    THEN Lexed(HexString(hex_bytes(hex_chars)), position + 1)
    ELSE hex_string_loop(input, position + 1,
                         IF is_ascii_hexdigit(input[position + 1])
                         THEN Append(hex_chars, input[position + 1]) ELSE hex_chars)

parse_hex_string(input, position) ==
    IF starts_with(input, position, <<60, 60>>)
    THEN Lexed(CommandOf(<<60, 60>>), position + 2)
    ELSE hex_string_loop(input, position + 1, <<>>)

\* The while loop of parse_ps_string.  After a backslash position is
\* incremented twice, whether or not a byte follows it.
RECURSIVE ps_string_loop(_, _, _, _)
ps_string_loop(input, position, string, paren_depth) ==
    IF ~(position < Len(input) /\ paren_depth > 0) THEN Lexed(String(string), position)
    ELSE IF input[position + 1] = 40
    THEN ps_string_loop(input, position + 1, Append(string, 40), paren_depth + 1)
    ELSE IF input[position + 1] = 41
    THEN ps_string_loop(input, position + 1,
                        IF paren_depth - 1 > 0 THEN Append(string, 41) ELSE string,
                        paren_depth - 1)
    ELSE IF input[position + 1] = 92
    THEN ps_string_loop(input, position + 2,
                        IF position + 1 < Len(input)
                        THEN string \o <<92, input[position + 2]>> ELSE string,
                        paren_depth)
    ELSE ps_string_loop(input, position + 1, Append(string, input[position + 1]),
                        paren_depth)

parse_ps_string(input, position) == ps_string_loop(input, position + 1, <<>>, 1)

parse_array(input, position) == Lexed(CommandOf(<<91>>), position + 1)

RECURSIVE name_loop(_, _, _)
name_loop(input, position, name) ==
    IF position >= Len(input) THEN Lexed(NameOf(name), position)
    ELSE IF is_ascii_whitespace(input[position + 1]) \/ is_delimiter(input[position + 1])
    THEN Lexed(NameOf(name), position)
    ELSE name_loop(input, position + 1, Append(name, input[position + 1]))

parse_name(input, position) == name_loop(input, position + 1, <<>>)

i32_MAX == 2147483647

Parsed(ok, val) == [ok |-> ok, val |-> val]

\* i32::from_str on the digits from index i on: checked_mul(10), then
\* checked_add(digit), or checked_sub(digit) after a minus sign.
RECURSIVE parse_digits(_, _, _, _)
parse_digits(digits, i, acc, negative) ==
    IF i > Len(digits) THEN Parsed(TRUE, acc)
    ELSE IF digits[i] \notin 48..57 THEN Parsed(FALSE, 0)
    ELSE IF negative
    THEN IF acc < -(i32_MAX \div 10)
            \/ (acc = -(i32_MAX \div 10) /\ digits[i] - 48 > 8)
         THEN Parsed(FALSE, 0)
         ELSE parse_digits(digits, i + 1, (acc * 10) - (digits[i] - 48), negative)
    ELSE IF acc > i32_MAX \div 10
            \/ (acc = i32_MAX \div 10 /\ digits[i] - 48 > 7)
         THEN Parsed(FALSE, 0)
         ELSE parse_digits(digits, i + 1, (acc * 10) + (digits[i] - 48), negative)

\* token.parse::<i32>(): an optional sign, then at least one decimal digit.
parse_i32(token) ==
    IF token = <<>> THEN Parsed(FALSE, 0)
    ELSE IF token[1] \in {43, 45}
    THEN IF Len(token) = 1 THEN Parsed(FALSE, 0)
         ELSE parse_digits(token, 2, 0, token[1] = 45)
    ELSE parse_digits(token, 1, 0, FALSE)

\* parse_token after its loop.
token_read(token, position, parsed) ==
    IF token = <<>> THEN Lexed(Eof, position)
    ELSE IF parsed.ok THEN Lexed(Integer(parsed.val), position)
    ELSE Lexed(CommandOf(token), position)

RECURSIVE token_loop(_, _, _)
token_loop(input, position, token) ==
    IF position >= Len(input) THEN token_read(token, position, parse_i32(token))
    ELSE IF is_ascii_whitespace(input[position + 1]) \/ is_delimiter(input[position + 1])
    THEN token_read(token, position, parse_i32(token))
    ELSE token_loop(input, position + 1, Append(token, input[position + 1]))

parse_token(input, position) == token_loop(input, position, <<>>)

RECURSIVE get_obj(_, _)
\* get_obj after its first skip_whitespace.
get_obj_at(input, position) ==
    IF position >= Len(input) THEN Lexed(Eof, position)
    ELSE IF input[position + 1] = 37
    THEN get_obj(input, skip_whitespace(input, skip_comment(input, position)))
    ELSE IF starts_with(input, position, <<62, 62>>)
    THEN Lexed(CommandOf(<<62, 62>>), position + 2)
    ELSE IF input[position + 1] = 60 THEN parse_hex_string(input, position)
    ELSE IF input[position + 1] = 40 THEN parse_ps_string(input, position)
    ELSE IF input[position + 1] = 91 THEN parse_array(input, position)
    ELSE IF input[position + 1] = 93 THEN Lexed(CommandOf(<<93>>), position + 1)
    ELSE IF input[position + 1] = 47 THEN parse_name(input, position)
    ELSE parse_token(input, position)

get_obj(input, position) == get_obj_at(input, skip_whitespace(input, position))

\* CMapLexer::new(input), with the last token returned (none yet), the position
\* before the last get_obj call and the number of tokens other than Eof.
CMapLexerNew(input) ==
    [input |-> input, position |-> 0, token |-> Eof, from |-> 0, calls |-> 0,
     tokens |-> 0]

\* The bytes every short input is made of: < > 3 g space % ( \
LexerBytes == {60, 62, 51, 103, 32, 37, 40, 92}

\* Longer inputs: <4a5>  <4 Ag2  <<3>>  (a(b)c)g  (\))3  (3\  [/N]  /N<41>
\* %c\n12  %c\r<4>  -7 +5  2147483647  2147483648  -2147483648  -2147483649
\* +  3-  ) 3  } 3  { 3  >3>> 3
LongInputs ==
    {<<60, 52, 97, 53, 62>>, <<60, 52, 32, 65, 103, 50>>, <<60, 60, 51, 62, 62>>,
     <<40, 97, 40, 98, 41, 99, 41, 103>>, <<40, 92, 41, 41, 51>>, <<40, 51, 92>>,
     <<91, 47, 78, 93>>, <<47, 78, 60, 52, 49, 62>>,
     <<37, 99, 10, 49, 50>>, <<37, 99, 13, 60, 52, 62>>,
     <<45, 55, 32, 43, 53>>,
     <<50, 49, 52, 55, 52, 56, 51, 54, 52, 55>>,
     <<50, 49, 52, 55, 52, 56, 51, 54, 52, 56>>,
     <<45, 50, 49, 52, 55, 52, 56, 51, 54, 52, 56>>,
     <<45, 50, 49, 52, 55, 52, 56, 51, 54, 52, 57>>,
     <<43>>, <<51, 45>>,
     <<41, 32, 51>>, <<125, 32, 51>>, <<123, 32, 51>>, <<62, 51, 62, 62, 32, 51>>}

LexerInputs == UNION {[1..n -> LexerBytes] : n \in 0..MaxInputLen} \cup LongInputs

-----------------------------------------------------------------------------
(* The state machine. *)

NoNum ==
    [op |-> "none", size |-> 0, err |-> FALSE, val |-> <<0, 0>>, num |-> ZeroBuf,
     pos |-> 0]

NoRead ==
    [called |-> FALSE, bytes |-> <<>>, offset |-> 0, underflow |-> FALSE,
     out |-> ReadOut(FALSE, U32(0), 0)]

Init ==
    /\ overflow_checks \in BOOLEAN
    /\ family \in Families
    /\ pc = IF family \in {"stream", "binary", "lexer"} THEN family ELSE "start"
    /\ result = "running"
    /\ cmap = CMapNew
    /\ eof = FALSE
    /\ entries = 0
    /\ last = [op |-> "new", toks |-> <<>>, pre |-> CMapNew]
    /\ rd = NoRead
    /\ wmode_seen = "no"
    /\ stream \in IF family = "stream" THEN Streams ELSE {<<>>}
    /\ reading = NoNum
    /\ lexer \in IF family = "lexer" THEN {CMapLexerNew(input) : input \in LexerInputs}
                ELSE {CMapLexerNew(<<>>)}

HasEof(toks) == \E k \in 1..Len(toks) : toks[k] = Eof

\* CMap::identity_h()
IdentityH ==
    /\ pc = "start"
    /\ pc' = "done"
    /\ result' = "some"
    /\ cmap' = identity_h
    /\ last' = [op |-> "identity_h", toks |-> <<>>, pre |-> CMapNew]
    /\ UNCHANGED <<overflow_checks, family, eof, entries, rd, wmode_seen, stream, reading, lexer>>

\* CMap::identity_v()
IdentityV ==
    /\ pc = "start"
    /\ pc' = "done"
    /\ result' = "some"
    /\ cmap' = identity_v
    /\ last' = [op |-> "identity_v", toks |-> <<>>, pre |-> CMapNew]
    /\ UNCHANGED <<overflow_checks, family, eof, entries, rd, wmode_seen, stream, reading, lexer>>

\* parse_cmap is called: CMap::new() and a lexer at position 0.
ParseCmapBegin ==
    /\ pc = "start"
    /\ pc' = "top"
    /\ cmap' = CMapNew
    /\ last' = [op |-> "begin", toks |-> <<>>, pre |-> CMapNew]
    /\ UNCHANGED <<overflow_checks, family, result, eof, entries, rd, wmode_seen, stream, reading, lexer>>

\* Whether the tokens read so far hold a `/WMode 1`, and a `/WMode 0` after it.
WModeSeenAfter(toks) ==
    IF Len(toks) = 2 /\ toks[1] = Name("WMode") /\ toks[2].type = "Integer"
    THEN IF toks[2].int = 1 THEN "one"
         ELSE IF toks[2].int = 0 /\ wmode_seen # "no" THEN "overridden"
         ELSE wmode_seen
    ELSE wmode_seen

\* One iteration of the loop of parse_cmap.
ParseCmapStep ==
    /\ pc = "top"
    /\ \E toks \in TopReads :
        LET st == parse_cmap(cmap, toks)
        IN  /\ st.used = Len(toks)
            /\ pc' = IF st.ctl = "continue" THEN "top" ELSE st.ctl
            /\ result' = IF st.ctl = "done" THEN "some" ELSE result
            /\ cmap' = st.cmap
            /\ eof' = (eof \/ HasEof(toks))
            /\ last' = [op |-> "top", toks |-> toks, pre |-> cmap]
            /\ wmode_seen' = WModeSeenAfter(toks)
    /\ UNCHANGED <<overflow_checks, family, entries, rd, stream, reading, lexer>>

\* The effect of one iteration of a block's loop.
Enter(op, toks, st) ==
    /\ st.used = Len(toks)
    /\ pc' = IF st.ctl = "continue" THEN pc
             ELSE IF st.ctl \in {"break", "return"} THEN "top"
             ELSE "done"
    /\ result' = IF st.ctl \in {"none", "panic", "hang"} THEN st.ctl ELSE result
    /\ cmap' = st.cmap
    /\ eof' = (eof \/ HasEof(toks))
    /\ entries' = IF st.ctl \in {"break", "return"} THEN entries ELSE entries + 1
    /\ last' = [op |-> op, toks |-> toks, pre |-> cmap]
    /\ UNCHANGED <<overflow_checks, family, rd, wmode_seen, stream, reading, lexer>>

ParseCodespaceRange ==
    /\ pc = "codespacerange"
    /\ \E toks \in CodespaceRangeReads :
        Enter("codespacerange", toks, parse_codespace_range(cmap, toks))

ParseBfChar ==
    /\ pc = "bfchar"
    /\ \E toks \in BfCharReads : Enter("bfchar", toks, parse_bf_char(cmap, toks))

ParseCidChar ==
    /\ pc = "cidchar"
    /\ \E toks \in CidCharReads : Enter("cidchar", toks, parse_cid_char(cmap, toks))

ParseBfRange ==
    /\ pc = "bfrange"
    /\ \E toks \in BfRangeReads : Enter("bfrange", toks, parse_bf_range(cmap, toks))

ParseCidRange ==
    /\ pc = "cidrange"
    /\ \E toks \in CidRangeReads : Enter("cidrange", toks, parse_cid_range(cmap, toks))

\* A caller holding a returned CMap calls read_code (once in a run: the call
\* leaves the CMap as it is).
ReadCode ==
    /\ pc = "done"
    /\ result = "some"
    /\ ~rd.called
    /\ family = "codespace" \/ last.op \in {"identity_h", "identity_v"}
    /\ \E bytes \in ReadBuffers :
        \E offset \in 0..(Len(bytes) + 1) :
            rd' = [called |-> TRUE, bytes |-> bytes, offset |-> offset,
                   underflow |-> usize_sub_underflows(Len(bytes), offset),
                   out |-> read_code(cmap, bytes, offset)]
    /\ UNCHANGED <<overflow_checks, family, pc, result, cmap, eof, entries, last, wmode_seen, stream, reading, lexer>>

TextVars == <<overflow_checks, family, pc, result, cmap, eof, entries, last, rd, wmode_seen>>

\* stream.read_number()
ReadNumber ==
    /\ pc = "stream" /\ reading.op = "none"
    /\ LET r == read_number(stream, 0)
       IN  reading' = [NoNum EXCEPT !.op = "read_number", !.err = r.err, !.val = r.val,
                                !.pos = r.pos]
    /\ UNCHANGED <<TextVars, stream, lexer>>

\* stream.read_signed()
ReadSigned ==
    /\ pc = "stream" /\ reading.op = "none"
    /\ LET r == read_signed(stream, 0)
       IN  reading' = [NoNum EXCEPT !.op = "read_signed", !.err = r.err, !.val = r.val,
                                !.pos = r.pos]
    /\ UNCHANGED <<TextVars, stream, lexer>>

\* stream.read_hex_number(&mut num, size), num a zeroed buffer
ReadHexNumber ==
    /\ pc = "stream" /\ reading.op = "none"
    /\ \E size \in Sizes :
        LET r == read_hex_number(stream, 0, ZeroBuf, size)
        IN  reading' = [NoNum EXCEPT !.op = "read_hex_number", !.size = size,
                                 !.err = r.err, !.num = r.num, !.pos = r.pos]
    /\ UNCHANGED <<TextVars, stream, lexer>>

\* stream.read_hex_signed(&mut num, size), num a zeroed buffer
ReadHexSigned ==
    /\ pc = "stream" /\ reading.op = "none"
    /\ \E size \in Sizes :
        LET r == read_hex_signed(stream, 0, ZeroBuf, size)
        IN  reading' = [NoNum EXCEPT !.op = "read_hex_signed", !.size = size,
                                 !.err = r.err, !.num = r.num, !.pos = r.pos]
    /\ UNCHANGED <<TextVars, stream, lexer>>

\* parse_binary_cmap is called: CMap::new(), and process reads the header byte.
ParseBinaryCmap ==
    /\ pc = "binary"
    /\ \E data \in Headers :
        LET header == read_byte(data, 0)
        IN  /\ pc' = IF header.b < 0 THEN "done" ELSE "records"
            /\ result' = IF header.b < 0 THEN "none" ELSE result
            /\ cmap' = IF header.b < 0 THEN CMapNew
                       ELSE [CMapNew EXCEPT !.vertical = (header.b % 2 # 0)]
            /\ last' = [op |-> IF header.b < 0 THEN "header_eof" ELSE "header",
                        toks |-> data, pre |-> CMapNew]
    /\ UNCHANGED <<overflow_checks, family, eof, entries, rd, wmode_seen, stream, reading, lexer>>

\* One iteration of the loop of process on a record rec of which the blob holds
\* the first k bytes: the blob ends inside the record when k < Len(rec).
ProcessRecord ==
    /\ pc = "records"
    /\ entries < EntryLimit
    /\ \E rec \in Records :
        \E k \in 1..Len(rec) :
            LET buffer == SubSeq(rec, 1, k)
                out == process_record(cmap, buffer)
            IN  /\ k = Len(rec) => out.status # "eof"
                /\ pc' = IF out.status = "ok" THEN pc ELSE "done"
                /\ result' = IF out.status = "ok" THEN result
                             ELSE IF out.status \in {"eof", "err"} THEN "none"
                             ELSE out.status
                /\ cmap' = out.cmap
                /\ last' = [op |-> IF k < Len(rec) THEN "record_cut" ELSE "record",
                            toks |-> buffer, pre |-> cmap]
    /\ entries' = entries + 1
    /\ UNCHANGED <<overflow_checks, family, eof, rd, wmode_seen, stream, reading, lexer>>

\* read_byte finds the end of the blob where a record would start: process
\* returns Ok(()) and parse_binary_cmap Some(cmap).
ProcessEnd ==
    /\ pc = "records"
    /\ pc' = "done"
    /\ result' = "some"
    /\ last' = [op |-> "end_of_blob", toks |-> <<>>, pre |-> cmap]
    /\ UNCHANGED <<overflow_checks, family, cmap, eof, entries, rd, wmode_seen, stream, reading, lexer>>

\* lexer.get_obj(), called until it returns Eof as the loop of parse_cmap does.
GetObj ==
    /\ pc = "lexer"
    /\ LET out == get_obj(lexer.input, lexer.position)
       IN  /\ lexer' = [input |-> lexer.input, position |-> out.position,
                        token |-> out.token, from |-> lexer.position,
                        calls |-> lexer.calls + 1,
                        tokens |-> lexer.tokens + (IF out.token = Eof THEN 0 ELSE 1)]
           /\ pc' = IF out.token = Eof THEN "done" ELSE pc
    /\ UNCHANGED <<overflow_checks, family, result, cmap, eof, entries, last, rd,
                   wmode_seen, stream, reading>>

Next ==
    \/ GetObj
    \/ ReadNumber
    \/ ReadSigned
    \/ ReadHexNumber
    \/ ReadHexSigned
    \/ IdentityH
    \/ IdentityV
    \/ ParseCmapBegin
    \/ ParseCmapStep
    \/ ParseCodespaceRange
    \/ ParseBfChar
    \/ ParseCidChar
    \/ ParseBfRange
    \/ ParseCidRange
    \/ ReadCode
    \/ ParseBinaryCmap
    \/ ProcessRecord
    \/ ProcessEnd

Spec == Init /\ [][Next]_vars

-----------------------------------------------------------------------------
(* What the properties are stated with: values computed from the inputs      *)
(* without the operators of the model above.                                 *)

\* The bytes of a string of up to four bytes, left-padded with zeros.
Pad4(bytes) == [i \in 1..4 |-> IF i <= 4 - Len(bytes) THEN 0 ELSE bytes[i - (4 - Len(bytes))]]

\* The big-endian value of a string of up to four bytes.
BeValue(bytes) ==
    LET p == Pad4(bytes) IN <<(p[1] * 256) + p[2], (p[3] * 256) + p[4]>>

\* The codes the lookups are probed at.
ProbeCodes ==
    {U32(0), U32(1), U32(2), U32(3), U32(4), U32(5), U32(6), U32(65), U32(4660),
     U32(65535), <<1, 0>>, <<65535, 65534>>, U32Max}
    \cup DOMAIN cmap.map \cup DOMAIN last.pre.map

\* The (low, high) pairs of a flat codespace sequence.
Pairs(codespace_range) ==
    {<<codespace_range[(2 * j) - 1], codespace_range[2 * j]>> :
        j \in 1..(Len(codespace_range) \div 2)}

InSomePair(codespace_range, c) ==
    \E pr \in Pairs(codespace_range) : U32Le(pr[1], c) /\ U32Le(c, pr[2])

-----------------------------------------------------------------------------
(* C1: for the CMap of identity_h() and of identity_v(), lookup_code(code)   *)
(* is code for every code <= 0xFFFF and nothing for every code > 0xFFFF.     *)

C1_IdentityLookup ==
    (result = "some" /\ last.op \in {"identity_h", "identity_v"}) =>
        \A code \in ProbeCodes :
            lookup_code(cmap, code) =
                IF code[1] = 0 THEN [some |-> TRUE, v |-> code]
                ELSE [some |-> FALSE, v |-> <<0, 0>>]

C1_Witness ==
    /\ result = "some"
    /\ last.op = "identity_v"
    /\ lookup_code(cmap, U32(65535)).some
    /\ ~lookup_code(cmap, <<1, 0>>).some

-----------------------------------------------------------------------------
(* The read_code call of a run, as the properties see it. *)

\* The call read at offset 0 the n-byte big-endian encoding of v.
ReadEncodingOf(v, n) ==
    /\ rd.called
    /\ rd.offset = 0
    /\ Len(rd.bytes) = n
    /\ BeValue(rd.bytes) = v

\* The value of the m bytes at the offset of the call.
ReadPrefix(m) == BeValue(SubSeq(rd.bytes, rd.offset + 1, rd.offset + m))

\* The lengths at which the bytes at the offset lie in a codespace range.
MatchLengths ==
    {m \in 1..Min(4, Len(rd.bytes) - rd.offset) :
        InSomePair(cmap.codespace_ranges[m], ReadPrefix(m))}

Least(S) == CHOOSE m \in S : \A k \in S : m <= k

(* C3, as stated: for every CMap of parse_cmap and every (low, high) of its   *)
(* length-n sequence, read_code at offset 0 of the n-byte encoding of low is  *)
(* (low, n), and of high is (high, n), whatever other ranges the CMap holds.  *)

C3_ReadsBackEveryBound ==
    (family = "codespace" /\ rd.called) =>
        \A n \in 1..4 : \A pr \in Pairs(cmap.codespace_ranges[n]) :
            /\ ReadEncodingOf(pr[1], n) => rd.out = ReadOut(FALSE, pr[1], n)
            /\ ReadEncodingOf(pr[2], n) => rd.out = ReadOut(FALSE, pr[2], n)

(* C3, amended: it holds for a pair with low <= high when no shorter prefix   *)
(* of the encoding lies in a range of its own, shorter, length.               *)

C3_ReadsBackBoundUnlessShorter ==
    (family = "codespace" /\ rd.called) =>
        \A n \in 1..4 : \A pr \in Pairs(cmap.codespace_ranges[n]) :
            (U32Le(pr[1], pr[2]) /\ \A m \in MatchLengths : m >= n) =>
                /\ ReadEncodingOf(pr[1], n) => rd.out = ReadOut(FALSE, pr[1], n)
                /\ ReadEncodingOf(pr[2], n) => rd.out = ReadOut(FALSE, pr[2], n)

\* A 2-byte bound is read back while the CMap also holds a 1-byte range.
C3_Witness ==
    /\ family = "codespace"
    /\ cmap.codespace_ranges[1] # <<>>
    /\ \E pr \in Pairs(cmap.codespace_ranges[2]) :
        /\ U32Lt(pr[1], pr[2])
        /\ ReadEncodingOf(pr[2], 2)
        /\ rd.out = ReadOut(FALSE, pr[2], 2)

(* C4: read_code(buffer, offset) with offset < buffer.len() returns (c, n)    *)
(* for the smallest n in 1..=min(4, len - offset) whose n bytes at the offset *)
(* have a big-endian value c inside some pair of the length-n sequence, and   *)
(* (0, 1) when there is no such n.                                            *)

C4_ShortestMatch ==
    (rd.called /\ rd.offset < Len(rd.bytes)) =>
        rd.out = IF MatchLengths = {} THEN ReadOut(FALSE, U32(0), 1)
                 ELSE ReadOut(FALSE, ReadPrefix(Least(MatchLengths)), Least(MatchLengths))

\* A match at length 1 wins over a match at length 2.
C4_Witness ==
    /\ rd.called
    /\ rd.offset < Len(rd.bytes)
    /\ MatchLengths = {1, 2}
    /\ rd.out.len = 1

\* The first byte is in no 1-byte range and the first two are in a 2-byte range.
C4_WitnessSecondLength ==
    /\ rd.called
    /\ cmap.codespace_ranges[1] # <<>>
    /\ MatchLengths = {2}
    /\ rd.out.len = 2

(* C5: read_code never fails: for every buffer and every offset >=            *)
(* buffer.len(), also beyond the length, it returns (0, 1) without a panic    *)
(* and without unsigned underflow in `bytes.len() - offset`.                  *)

C5_PastEndIsSentinel ==
    (rd.called /\ rd.offset >= Len(rd.bytes)) =>
        /\ ~rd.out.panic
        /\ rd.out = ReadOut(FALSE, U32(0), 1)
        /\ ~rd.underflow

-----------------------------------------------------------------------------
(* The last entry of a block, as the properties see it: `last` holds the      *)
(* tokens the iteration read and the CMap before it.                          *)

IsHex(k) == Len(last.toks) >= k /\ last.toks[k].type = "HexString"

IsInt(k) == Len(last.toks) >= k /\ last.toks[k].type = "Integer"

\* <L> and <H> of a range entry, packed big-endian.
EntryLow == BeValue(last.toks[1].bytes)

EntryHigh == BeValue(last.toks[2].bytes)

InRange(x) == U32Le(EntryLow, x) /\ U32Le(x, EntryHigh)

\* x - L as a number, for x in a range whose span passes the span check.
IndexOf(x) == (wrapping_sub(x, EntryLow)[1] * Half) + wrapping_sub(x, EntryLow)[2]

\* L <= H and H - L <= 0xFFFFFF.
SpanAccepted ==
    /\ U32Le(EntryLow, EntryHigh)
    /\ U32Le(wrapping_sub(EntryHigh, EntryLow), U32(MAX_MAP_RANGE))

\* L <= H and H - L > 0xFFFFFF.
SpanOversized ==
    /\ U32Le(EntryLow, EntryHigh)
    /\ U32Lt(U32(MAX_MAP_RANGE), wrapping_sub(EntryHigh, EntryLow))

\* `<L> <H> D` read in a cidrange block.
CidRangeEntry == last.op = "cidrange" /\ IsHex(1) /\ IsHex(2) /\ IsInt(3)

\* `<L> <H> D` read in a bfrange block, D an integer.
BfRangeIntEntry == last.op = "bfrange" /\ IsHex(1) /\ IsHex(2) /\ IsInt(3)

\* `<L> <H> <dst>` read in a bfrange block.
BfRangeStringEntry == last.op = "bfrange" /\ IsHex(1) /\ IsHex(2) /\ IsHex(3)

\* `<L> <H> [ ...` read in a bfrange block.
BfRangeArrayEntry ==
    /\ last.op = "bfrange" /\ IsHex(1) /\ IsHex(2)
    /\ Len(last.toks) >= 4 /\ last.toks[3] = Command("[")

\* `<src> <dst>` read in a bfchar block.
BfCharEntry == last.op = "bfchar" /\ IsHex(1) /\ IsHex(2)

\* The entry is the only directive so far.
OnlyDirective == last.pre.map = EmptyMap

(* C2, as stated: after the only directive `begincidrange <L> <H> D`, L <= H, *)
(* H - L <= 0xFFFFFF, D >= 0, parse_cmap goes on to return a CMap where       *)
(* lookup_code(x) = D + (x - L) for x in [L, H] and nothing outside.          *)

C2_CidRangeLookup ==
    (CidRangeEntry /\ OnlyDirective /\ SpanAccepted /\ last.toks[3].int >= 0) =>
        /\ result = "running"
        /\ \A x \in ProbeCodes :
            lookup_code(cmap, x) =
                IF InRange(x)
                THEN Some(wrapping_add(U32(last.toks[3].int), wrapping_sub(x, EntryLow)))
                ELSE None

\* C2 for H < 0xFFFFFFFF, where the loop counter cannot wrap.
C2_CidRangeLookupBelowTop ==
    (CidRangeEntry /\ OnlyDirective /\ SpanAccepted /\ last.toks[3].int >= 0
        /\ EntryHigh # U32Max) =>
        /\ result = "running"
        /\ \A x \in ProbeCodes :
            lookup_code(cmap, x) =
                IF InRange(x)
                THEN Some(wrapping_add(U32(last.toks[3].int), wrapping_sub(x, EntryLow)))
                ELSE None

(* C6, as stated and for H < 0xFFFFFFFF: after `beginbfrange <L> <H> D`, D    *)
(* an integer, L <= H, 0 <= D, D + (H - L) <= 255, lookup_code(L + i) = D + i *)
(* for i in 0..=H-L and every code outside [L, H] is unmapped.                *)

C6_BfRangeIntegerLookup ==
    (BfRangeIntEntry /\ OnlyDirective /\ SpanAccepted /\ EntryHigh # U32Max
        /\ last.toks[3].int >= 0
        /\ last.toks[3].int + IndexOf(EntryHigh) <= 255) =>
        /\ result = "running"
        /\ \A x \in ProbeCodes :
            lookup_code(cmap, x) =
                IF InRange(x) THEN Some(U32(last.toks[3].int + IndexOf(x))) ELSE None

\* C6 for destinations that stay below 0x80, where one byte is one character.
C6_BfRangeIntegerLookupAscii ==
    (BfRangeIntEntry /\ OnlyDirective /\ SpanAccepted /\ EntryHigh # U32Max
        /\ last.toks[3].int >= 0
        /\ last.toks[3].int + IndexOf(EntryHigh) <= 127) =>
        /\ result = "running"
        /\ \A x \in ProbeCodes :
            lookup_code(cmap, x) =
                IF InRange(x) THEN Some(U32(last.toks[3].int + IndexOf(x))) ELSE None

\* The tokens of the array that carry a value, and the values.
ValueTokens ==
    SelectSeq(SubSeq(last.toks, 4, Len(last.toks) - 1),
              LAMBDA t : t.type \in {"Integer", "HexString", "String"})

Values ==
    [k \in 1..Len(ValueTokens) |->
        IF ValueTokens[k].type = "Integer" THEN i32_as_u32(ValueTokens[k].int)
        ELSE IF ValueTokens[k].bytes = <<>> THEN U32(0)
        ELSE U32(ValueTokens[k].bytes[1])]

(* C7, as stated: after `beginbfrange <L> <H> [ v0 v1 ... ]` with an accepted *)
(* span, map[L + i] = values[i] exactly for i in 0..=min(H - L, len - 1):     *)
(* codes beyond the end of the array stay unmapped, elements beyond H - L are *)
(* not used, and an empty array adds no mapping.                              *)

C7_BfRangeArrayLookup ==
    (BfRangeArrayEntry /\ OnlyDirective /\ SpanAccepted) =>
        /\ result = "running"
        /\ \A x \in ProbeCodes :
            lookup_code(cmap, x) =
                IF InRange(x) /\ IndexOf(x) < Len(Values)
                THEN Some(Values[IndexOf(x) + 1])
                ELSE None

\* C7 for H < 0xFFFFFFFF, where the loop counter cannot wrap.
C7_BfRangeArrayLookupBelowTop ==
    (BfRangeArrayEntry /\ OnlyDirective /\ SpanAccepted /\ EntryHigh # U32Max) =>
        /\ result = "running"
        /\ \A x \in ProbeCodes :
            lookup_code(cmap, x) =
                IF InRange(x) /\ IndexOf(x) < Len(Values)
                THEN Some(Values[IndexOf(x) + 1])
                ELSE None

(* C8, as stated: after a bfchar entry `<src> <dst>`, lookup_code(pack(src))  *)
(* is pack(dst) when dst has at most 2 characters, for every destination      *)
(* value 0x0000..0xFFFF, and the first character of dst when it has more.     *)

C8_BfCharLookup ==
    BfCharEntry =>
        lookup_code(cmap, EntryLow) =
            IF Len(last.toks[2].bytes) <= 2 THEN Some(BeValue(last.toks[2].bytes))
            ELSE Some(U32(last.toks[2].bytes[1]))

IsSurrogate(v) == v[1] = 0 /\ v[2] >= 55296 /\ v[2] <= 57343

(* C8, amended: a destination of at most 2 characters whose value is a        *)
(* surrogate, 0xD800..0xDFFF, is stored as its first character like the       *)
(* longer destinations; every other one as pack(dst).                         *)

C8_BfCharLookupScalar ==
    BfCharEntry =>
        lookup_code(cmap, EntryLow) =
            IF Len(last.toks[2].bytes) <= 2 /\ ~IsSurrogate(BeValue(last.toks[2].bytes))
            THEN Some(BeValue(last.toks[2].bytes))
            ELSE Some(U32(last.toks[2].bytes[1]))

\* A 2-character destination above 0xFF is stored packed.
C8_Witness ==
    /\ BfCharEntry
    /\ last.toks[2].bytes = <<18, 52>>
    /\ lookup_code(cmap, EntryLow) = Some(U32(4660))

\* A surrogate destination is stored as its first character.
C8_WitnessSurrogate ==
    /\ BfCharEntry
    /\ last.toks[2].bytes = <<216, 0>>
    /\ lookup_code(cmap, EntryLow) = Some(U32(216))

\* The increment of the destination string as C9 states it, on the bytes.
StatedIncrement(str) ==
    IF str = <<>> THEN str
    ELSE IF str[Len(str)] = 255
    THEN IF Len(str) > 1
         THEN [str EXCEPT ![Len(str) - 1] = (@ + 1) % 256, ![Len(str)] = 0]
         ELSE str
    ELSE [str EXCEPT ![Len(str)] = @ + 1]

RECURSIVE StatedIncrementTimes(_, _)
StatedIncrementTimes(str, k) ==
    IF k = 0 THEN str ELSE StatedIncrementTimes(StatedIncrement(str), k - 1)

StatedFirst(str) == IF str = <<>> THEN U32(0) ELSE U32(str[1])

(* C9, as stated and for H < 0xFFFFFFFF: map_bf_range stores for the i-th     *)
(* code the first character of the destination incremented i times as a       *)
(* big-endian byte string: a last byte 0xFF becomes 0x00 with a carry to the  *)
(* left, and a 1-byte string that reached 0xFF stays 0xFF.                    *)

C9_BfRangeIncrement ==
    (BfRangeStringEntry /\ SpanAccepted /\ EntryHigh # U32Max) =>
        /\ result = "running"
        /\ \A x \in ProbeCodes :
            InRange(x) =>
                lookup_code(cmap, x) =
                    Some(StatedFirst(StatedIncrementTimes(last.toks[3].bytes, IndexOf(x))))

\* C9 for the first code of the range: the first character of dst as given.
C9_BfRangeFirstCharacter ==
    (BfRangeStringEntry /\ SpanAccepted) =>
        lookup_code(cmap, EntryLow) = Some(StatedFirst(last.toks[3].bytes))

(* C10: an entry of a textual begincidrange or beginbfrange directive         *)
(* (integer, string or array destination) with high - low > 0xFFFFFF inserts  *)
(* no mapping and parse_cmap returns None, whatever earlier directives added. *)

C10_OversizedSpanFailsParse ==
    ((CidRangeEntry \/ BfRangeIntEntry \/ BfRangeStringEntry \/ BfRangeArrayEntry)
        /\ SpanOversized) =>
        /\ result = "none"
        /\ pc = "done"
        /\ cmap.map = last.pre.map

\* An oversized cidrange entry after a directive that added a mapping.
C10_Witness ==
    /\ CidRangeEntry
    /\ SpanOversized
    /\ last.pre.map # EmptyMap
    /\ result = "none"

\* An oversized bfrange entry with an array destination.
C10_WitnessArray ==
    /\ BfRangeArrayEntry
    /\ SpanOversized
    /\ Len(Values) > 0
    /\ result = "none"

-----------------------------------------------------------------------------
(* The textual parser as a whole. *)

Blocks == {"codespacerange", "bfchar", "bfrange", "cidchar", "cidrange"}

\* The iteration read k tokens and the k-th is the end of input.
EofAt(k) ==
    /\ Len(last.toks) = k
    /\ last.toks[k] = Eof
    /\ \A j \in 1..(k - 1) : last.toks[j] # Eof

(* C11, as stated: inside any begin... block, end of input at any token       *)
(* position, also after an entry's source string and before its destination,  *)
(* ends the block's loop without failure and keeps the entries completed      *)
(* before it: parse_cmap goes on at top level with the CMap as it was.        *)

C11_EofEndsBlock ==
    (last.op \in Blocks /\ \E k \in 1..3 : EofAt(k)) =>
        /\ result = "running"
        /\ pc = "top"
        /\ cmap = last.pre

\* C11 for end of input where an entry would start.
C11_EofAtEntryBoundary ==
    (last.op \in Blocks /\ EofAt(1)) =>
        /\ result = "running"
        /\ pc = "top"
        /\ cmap = last.pre

(* C12, as stated for the token boundaries between top-level directives: an   *)
(* accepted input that holds `/WMode 1 def` gives a CMap with is_vertical().  *)

C12_WModeOneAnywhere ==
    (pc = "done" /\ result = "some" /\ wmode_seen # "no") => is_vertical(cmap)

(* C12, amended: `/WMode 1 def` between top-level directives, with no         *)
(* `/WMode 0` after it, gives is_vertical() = true.                           *)

C12_WModeOneLast ==
    wmode_seen = "one" => is_vertical(cmap)

\* A returned CMap with mappings, parsed from an input with `/WMode 1` in it.
C12_Witness ==
    /\ pc = "done" /\ result = "some"
    /\ wmode_seen = "one"
    /\ cmap.map # EmptyMap
    /\ is_vertical(cmap)

(* C13: in every reachable CMap state the identity fallback applies exactly   *)
(* when the name is Identity-H or Identity-V and the map is empty: with an    *)
(* entry in the map, lookup_code is absent for every code not in the map      *)
(* whatever the name; with an empty map and such a name it is code for        *)
(* code <= 0xFFFF.                                                            *)

C13_IdentityOnlyWithEmptyMap ==
    \A code \in ProbeCodes :
        lookup_code(cmap, code) =
            IF code \in DOMAIN cmap.map THEN [some |-> TRUE, v |-> cmap.map[code]]
            ELSE IF /\ cmap.name \in {"Identity-H", "Identity-V"}
                    /\ cmap.map = EmptyMap
                    /\ code[1] = 0
            THEN [some |-> TRUE, v |-> code]
            ELSE [some |-> FALSE, v |-> <<0, 0>>]

\* An identity name with a mapping: a code <= 0xFFFF outside the map is absent.
C13_Witness ==
    /\ cmap.name = "Identity-H"
    /\ cmap.map # EmptyMap
    /\ U32(5) \notin DOMAIN cmap.map
    /\ ~lookup_code(cmap, U32(5)).some

\* A parsed CMap named Identity-V with an empty map falls back.
C13_WitnessParsed ==
    /\ last.op \notin {"identity_h", "identity_v"}
    /\ cmap.name = "Identity-V"
    /\ cmap.map = EmptyMap
    /\ lookup_code(cmap, U32(5)) = [some |-> TRUE, v |-> U32(5)]

\* v fits in 8 * n bits.
FitsBytes(v, n) ==
    CASE n = 1 -> v[1] = 0 /\ v[2] < 256
      [] n = 2 -> v[1] = 0
      [] n = 3 -> v[1] < 256
      [] OTHER -> TRUE

(* C14, as stated: after any sequence of parser operations every (low, high)  *)
(* pair stored in the length-n codespace sequence has low <= high, and low    *)
(* and high fit in 8 * n bits.                                                *)

C14_CodespacePairsOrdered ==
    \A n \in 1..4 : \A pr \in Pairs(cmap.codespace_ranges[n]) :
        /\ U32Le(pr[1], pr[2])
        /\ FitsBytes(pr[1], n)
        /\ FitsBytes(pr[2], n)

\* C14 for the part the parsers do keep: high fits in 8 * n bits.
C14_HighFitsLength ==
    \A n \in 1..4 : \A pr \in Pairs(cmap.codespace_ranges[n]) : FitsBytes(pr[2], n)

\* A token parse_cmap is said to tolerate between top-level directives.
Tolerated(t) ==
    \/ t.type = "Command"
        /\ t.text \notin {"endcmap", "begincodespacerange", "beginbfchar",
                          "begincidchar", "beginbfrange", "begincidrange"}
    \/ t.type \in {"Integer", "String", "HexString"}

(* C17: a tolerated token between top-level directives (def, dict, begin,     *)
(* end, findresource, <<, >>, pop, currentdict, defineresource, usecmap, any  *)
(* other unknown command, a standalone integer or string) leaves the name,    *)
(* the writing mode, the codespace ranges and the map as they are, and the    *)
(* parse goes on as it would without the token.                               *)

C17_NoiseLeavesCMap ==
    (last.op = "top" /\ Len(last.toks) = 1 /\ Tolerated(last.toks[1])) =>
        /\ cmap = last.pre
        /\ pc = "top"
        /\ result = "running"
        /\ ~eof

\* `end` is read after directives gave the CMap a name, ranges and mappings.
C17_Witness ==
    /\ last.op = "top"
    /\ last.toks = <<Command("end")>>
    /\ cmap.map # EmptyMap
    /\ cmap = last.pre
    /\ pc = "top"

\* A standalone string is read after a mapping was added.
C17_WitnessString ==
    /\ last.op = "top"
    /\ last.toks = <<String(<<40, 41>>)>>
    /\ cmap.map # EmptyMap
    /\ cmap = last.pre

-----------------------------------------------------------------------------
(* The stream readers.  The number a buffer starts with is stated bit by bit: *)
(* bit j of its value is bit j mod 7 of the septet j div 7 places before the  *)
(* terminating byte.                                                          *)

HasTerminator == \E i \in 1..Len(stream) : stream[i] < 128

\* The index of the first byte whose bit 0x80 is clear.
Terminator ==
    CHOOSE i \in 1..Len(stream) : stream[i] < 128 /\ \A k \in 1..(i - 1) : stream[k] >= 128

ValueBit(j) ==
    IF Terminator - (j \div 7) >= 1
    THEN ((stream[Terminator - (j \div 7)] % 128) \div (2 ^ (j % 7))) % 2
    ELSE 0

\* Bits j..top of the value, as a number.
RECURSIVE ValueBits(_, _)
ValueBits(j, top) == IF j > top THEN 0 ELSE ValueBit(j) + (2 * ValueBits(j + 1, top))

\* The base-128 value, truncated to 32 bits.
StatedValue == <<ValueBits(16, 31), ValueBits(0, 15)>>

(* C18: read_number consumes the bytes up to and including the first whose    *)
(* bit 0x80 is clear and returns their big-endian base-128 value truncated to *)
(* 32 bits; when the stream ends before such a byte it returns an error.      *)

C18_ReadNumber ==
    reading.op = "read_number" =>
        IF HasTerminator
        THEN ~reading.err /\ reading.val = StatedValue /\ reading.pos = Terminator
        ELSE reading.err

\* Five bytes whose 35 bits are truncated to 0xFFFFFFFF.
C18_Witness ==
    /\ reading.op = "read_number"
    /\ ~reading.err
    /\ reading.pos = 5
    /\ reading.val = U32Max

\* The stream ends after continuation bytes.
C18_WitnessEof ==
    /\ reading.op = "read_number"
    /\ Len(stream) = 2
    /\ reading.err

\* The zig-zag encoding of a signed 32-bit number.
ZigZag(v) ==
    IF v < 0 THEN <<(-(v + 1)) \div 32768, (((-(v + 1)) % 32768) * 2) + 1>>
    ELSE <<v \div 32768, (v % 32768) * 2>>

(* C19: read_signed returns -(n >> 1) - 1 for odd n and n >> 1 for even n,    *)
(* n the number read, for n up to 2^32 - 1; the decoding is injective: n is   *)
(* recovered from the result.                                                 *)

C19_ReadSigned ==
    (reading.op = "read_signed" /\ HasTerminator) =>
        /\ ~reading.err
        /\ reading.val = IF ValueBit(0) = 1 THEN (-ValueBits(1, 31)) - 1
                         ELSE ValueBits(1, 31)
        /\ ZigZag(reading.val) = StatedValue

\* n = 0xFFFFFFFF decodes to the least signed 32-bit number.
C19_Witness ==
    /\ reading.op = "read_signed"
    /\ HasTerminator
    /\ StatedValue = U32Max
    /\ reading.val = (-2147483647) - 1

\* Bit j of the (size + 1)-byte two's complement of the zig-zag decoding.
SignedBit(j, size) ==
    ((IF j + 1 < 8 * (size + 1) THEN ValueBit(j + 1) ELSE 0) + ValueBit(0)) % 2

RECURSIVE SignedBits(_, _, _)
SignedBits(j, top, size) ==
    IF j > top THEN 0 ELSE SignedBit(j, size) + (2 * SignedBits(j + 1, top, size))

(* C20: for size in 0..=3 and a terminated number of at most 16 bytes,        *)
(* read_hex_number leaves in buf[0..=size] the big-endian bytes of the value  *)
(* modulo 256^(size+1), and read_hex_signed the (size+1)-byte two's           *)
(* complement of the zig-zag decoding of that value.                          *)

C20_HexReadersAgree ==
    (reading.op \in {"read_hex_number", "read_hex_signed"} /\ HasTerminator) =>
        /\ ~reading.err
        /\ reading.pos = Terminator
        /\ \A k \in 0..reading.size :
            reading.num[k + 1] =
                IF reading.op = "read_hex_number"
                THEN ValueBits(8 * (reading.size - k), (8 * (reading.size - k)) + 7)
                ELSE SignedBits(8 * (reading.size - k), (8 * (reading.size - k)) + 7,
                                reading.size)

\* A 16-byte odd number read as a signed 4-byte string.
C20_Witness ==
    /\ reading.op = "read_hex_signed"
    /\ reading.size = 3
    /\ HasTerminator /\ Terminator = 16
    /\ ValueBit(0) = 1
    /\ ~reading.err

\* A number of more bits than the string holds.
C20_WitnessTruncated ==
    /\ reading.op = "read_hex_number"
    /\ reading.size = 0
    /\ HasTerminator /\ Terminator = 3
    /\ reading.num[1] = 255

-----------------------------------------------------------------------------
(* The binary parser. *)

\* The last step ran a record of the blob, whole or cut short by the blob's end.
RecordRead == family = "binary" /\ last.op \in {"record", "record_cut"}

RecordType == (last.toks[1] \div 32) % 8

RecordDataSize == last.toks[1] % 16

(* C15, as stated: parse_binary_cmap returns a CMap only if the blob ends at a *)
(* record boundary, after the header byte or after a complete record; it       *)
(* returns absent if the bytes run out inside a record, if the blob is empty,  *)
(* or if a record has type 6.                                                  *)

C15_AbsentUnlessRecordBoundary ==
    family = "binary" =>
        /\ result = "some" => last.op = "end_of_blob"
        /\ last.op \in {"record_cut", "header_eof"} => result = "none"
        /\ (last.op = "record" /\ RecordType = 6) => result = "none"

\* C15 where no range builder panics: the blob that ends inside a record is
\* absent unless an earlier item of the record has panicked the build with
\* overflow checks.
C15_AbsentOrPanicked ==
    family = "binary" =>
        /\ result = "some" => last.op = "end_of_blob"
        /\ last.op \in {"record_cut", "header_eof"} =>
               \/ result = "none"
               \/ result = "panic" /\ overflow_checks /\ RecordType \in {3, 5}
        /\ (last.op = "record" /\ RecordType = 6) => result = "none"

C15_Witness ==
    /\ family = "binary" /\ last.op = "record_cut" /\ result = "none"
    /\ RecordType = 4 /\ Len(last.toks) = 4

C15_WitnessBoundary ==
    /\ family = "binary" /\ last.op = "end_of_blob" /\ result = "some"
    /\ cmap.map # EmptyMap

\* The last step ran a whole type-4 or type-5 record of one item, and stored
\* a value for its first source code: what the record's bytes say.
OneItemRecord(type) ==
    /\ RecordRead /\ last.op = "record" /\ pc = "records"
    /\ RecordType = type
    /\ last.toks[2] = 1

FirstSource == U32((last.toks[3] * 256) + last.toks[4])

\* The first byte of the destination buffer of the record.
FirstDestinationByte == IF RecordType = 4 THEN last.toks[5] ELSE last.toks[6]

(* C16, as stated: for a binary type-4 (bfchar) or type-5 (bfrange) record the *)
(* value stored for a source code is the first byte of the destination buffer  *)
(* of data_size + 1 bytes, taken as a 1-byte code point, for every first byte  *)
(* 0x00..0xFF.                                                                 *)

C16_FirstByteStored ==
    /\ OneItemRecord(4) => lookup_code(cmap, FirstSource) = Some(U32(FirstDestinationByte))
    /\ OneItemRecord(5) =>
           \/ lookup_code(cmap, FirstSource) = None
           \/ lookup_code(cmap, FirstSource) = Some(U32(FirstDestinationByte))

\* C16 for a first byte 0x00..0x7F.
C16_FirstByteStoredAscii ==
    /\ (OneItemRecord(4) /\ FirstDestinationByte < 128) =>
           lookup_code(cmap, FirstSource) = Some(U32(FirstDestinationByte))
    /\ (OneItemRecord(5) /\ FirstDestinationByte < 128) =>
           \/ lookup_code(cmap, FirstSource) = None
           \/ lookup_code(cmap, FirstSource) = Some(U32(FirstDestinationByte))

C16_Witness ==
    /\ OneItemRecord(4) /\ RecordDataSize = 1 /\ FirstDestinationByte = 0
    /\ lookup_code(cmap, FirstSource) = Some(U32(0))

C16_WitnessRange ==
    /\ OneItemRecord(5) /\ FirstDestinationByte = 65
    /\ lookup_code(cmap, FirstSource) = Some(U32(65))

(* C14 for the binary parser: a type-0 record of data_size + 1 <= 4 bytes      *)
(* stores a pair whose low and high both fit in 8 * (data_size + 1) bits.      *)

C14_BinaryPairsFit ==
    (RecordRead /\ RecordType = 0) =>
        \A n \in 1..4 : \A pr \in Pairs(cmap.codespace_ranges[n]) :
            FitsBytes(pr[1], n) /\ FitsBytes(pr[2], n)

C14_WitnessBinaryReversed ==
    /\ RecordRead /\ last.op = "record" /\ RecordType = 0
    /\ \E pr \in Pairs(cmap.codespace_ranges[1]) : U32Lt(pr[2], pr[1])

-----------------------------------------------------------------------------
(* The cidchar records of the binary parser, as their bytes state them: the   *)
(* records whose numbers are one byte long, or 0xFFFFFFFF in five bytes.      *)

RecordSequence == (last.toks[1] \div 16) % 2 # 0

RecordCount == last.toks[2]

\* Where the code of the first item starts, and how many bytes it takes.
CidCodeAt == 4 + RecordDataSize

CidCodeTop ==
    /\ Len(last.toks) >= CidCodeAt + 4
    /\ SubSeq(last.toks, CidCodeAt, CidCodeAt + 4) = <<143, 255, 255, 255, 127>>

CidCodeLen == IF last.toks[CidCodeAt] < 128 THEN 1 ELSE 5

\* The first code as an integer: 0xFFFFFFFF is -1 modulo 2^32.
CidFirstCode == IF last.toks[CidCodeAt] < 128 THEN last.toks[CidCodeAt] ELSE -1

\* A whole type-2 record of one or two items of the stated shape.
CidCharRecord ==
    /\ RecordRead /\ last.op = "record"
    /\ RecordType = 2
    /\ RecordDataSize <= 1
    /\ RecordCount \in {1, 2}
    /\ last.toks[CidCodeAt] < 128 \/ CidCodeTop

\* The integer e, from -2^16 to 2^31 - 1, truncated to 32 bits.
Truncated(e) == IF e >= 0 THEN <<e \div 65536, e % 65536>> ELSE <<65535, 65536 + e>>

\* The value of a signed number of one byte.
SignedOfByte(s) == IF s % 2 = 1 THEN (-(s \div 2)) - 1 ELSE s \div 2

CidFirstChar == BeValue(SubSeq(last.toks, 3, 3 + RecordDataSize))

\* What the second item adds to the char: 1, and the delta unless a sequence.
CidCharStep ==
    IF RecordSequence THEN 1 ELSE 1 + last.toks[CidCodeAt + CidCodeLen]

CidSecondChar ==
    Truncated((CidFirstChar[2] + CidCharStep) % (IF RecordDataSize = 0 THEN 256 ELSE 65536))

CidSecondDelta ==
    SignedOfByte(last.toks[CidCodeAt + CidCodeLen + (IF RecordSequence THEN 0 ELSE 1)])

CidSecondCode == Truncated(CidFirstCode + CidSecondDelta + 1)

(* C21: in a binary type-2 (cidchar) record the first item maps pack(char) to *)
(* the code read by read_number; each later item maps the previous char + 1,  *)
(* plus a delta read only when the sequence flag is clear, with carry modulo  *)
(* 256^(data_size+1), to the previous code + read_signed() + 1, the sum being *)
(* truncated to 32 bits.                                                      *)

C21_CidCharRecord ==
    CidCharRecord =>
        /\ pc = "records"
        /\ \A c \in ProbeCodes \cup {CidFirstChar}
                       \cup (IF RecordCount = 2 THEN {CidSecondChar} ELSE {}) :
            lookup_code(cmap, c) =
                IF RecordCount = 2 /\ c = CidSecondChar THEN Some(CidSecondCode)
                ELSE IF c = CidFirstChar THEN Some(Truncated(CidFirstCode))
                ELSE lookup_code([last.pre EXCEPT !.name = "x"], c)

\* The sum wraps upwards: 0xFFFFFFFF + 0 + 1 is 0.
C21_Witness ==
    /\ CidCharRecord /\ RecordCount = 2 /\ CidCodeTop
    /\ lookup_code(cmap, CidFirstChar) = Some(U32Max)
    /\ lookup_code(cmap, CidSecondChar) = Some(U32(0))

\* The sum wraps downwards, and the char carries modulo 256: FF -> 0, then
\* 00 -> 0 - 2 + 1.
C21_WitnessNegative ==
    /\ CidCharRecord /\ RecordCount = 2 /\ RecordDataSize = 0
    /\ CidFirstChar = U32(255) /\ CidSecondChar = U32(0)
    /\ lookup_code(cmap, U32(0)) = Some(U32Max)

\* The delta of the char is read: 41 -> 5, then 43 -> 7.
C21_WitnessDelta ==
    /\ CidCharRecord /\ RecordCount = 2 /\ ~RecordSequence
    /\ CidSecondChar = U32(67)
    /\ lookup_code(cmap, U32(67)) = Some(U32(7))

-----------------------------------------------------------------------------
(* The range records of the binary parser. *)

\* A whole type-3 record of 4-byte codes whose first item is 00000000 with a
\* delta of 2^24 (88 80 80 00 in base 128): a span above 0xFFFFFF.
OversizedCidRangeRecord ==
    /\ RecordRead /\ last.op = "record"
    /\ RecordType = 3 /\ RecordDataSize = 3
    /\ Len(last.toks) >= 11
    /\ SubSeq(last.toks, 3, 10) = <<0, 0, 0, 0, 136, 128, 128, 0>>

\* The second item of such a record: the start one above the end 01000000 plus
\* its delta, the end its delta above the start.
SecondRangeLow == <<256, 1 + last.toks[12]>>

SecondRangeHigh == <<256, 1 + last.toks[12] + last.toks[13]>>

(* C25: in the binary parser a type-3 or type-5 item whose range builder      *)
(* returns failure (span > 0xFFFFFF) adds no mapping and is no parse failure: *)
(* the items and records after it are applied and parse_binary_cmap returns   *)
(* a CMap.                                                                    *)

C25_SpanFailureDropped ==
    /\ (RecordRead /\ last.op = "record" /\ RecordType \in {3, 5}) => result # "none"
    /\ OversizedCidRangeRecord =>
        /\ pc = "records" /\ result = "running"
        /\ \A c \in ProbeCodes
                       \cup (IF RecordCount = 2 THEN {SecondRangeLow, SecondRangeHigh}
                             ELSE {}) :
            lookup_code(cmap, c) =
                IF RecordCount = 2 /\ U32Le(SecondRangeLow, c) /\ U32Le(c, SecondRangeHigh)
                THEN Some(wrapping_add(U32(last.toks[14]), wrapping_sub(c, SecondRangeLow)))
                ELSE lookup_code(last.pre, c)
    /\ (family = "binary" /\ last.op = "end_of_blob") => result = "some"

\* The item after the oversized one is applied.
C25_Witness ==
    /\ OversizedCidRangeRecord /\ RecordCount = 2
    /\ lookup_code(cmap, <<256, 0>>) = None
    /\ lookup_code(cmap, <<256, 2>>) = Some(U32(10))

\* The record after the oversized one is applied and the CMap is returned.
C25_WitnessReturned ==
    /\ family = "binary" /\ last.op = "end_of_blob" /\ result = "some"
    /\ <<256, 1>> \in DOMAIN cmap.map
    /\ U32(65) \in DOMAIN cmap.map

-----------------------------------------------------------------------------
(* The loops and the span computation of the range builders. *)

\* A range entry of a textual block.
RangeEntry == CidRangeEntry \/ BfRangeIntEntry \/ BfRangeStringEntry \/ BfRangeArrayEntry

\* A type-3 record of 4-byte codes whose first range is FFFFFFFF, delta 0, and
\* whose code is read.
TopCidRangeRecord ==
    /\ RecordRead
    /\ RecordType = 3 /\ RecordDataSize = 3
    /\ Len(last.toks) >= 8
    /\ SubSeq(last.toks, 3, 7) = <<255, 255, 255, 255, 0>>

(* C26, as stated: map_cid_range, map_bf_range and map_bf_range_to_array      *)
(* terminate for all arguments that pass the span check, with at most         *)
(* high - low + 1 insertions, also when high = 0xFFFFFFFF: the loop counter   *)
(* does not wrap around 2^32 and re-enter the loop.                           *)

C26_RangeBuildersTerminate ==
    /\ result # "hang"
    /\ (CidRangeEntry /\ SpanAccepted /\ last.toks[3].int >= 0
            /\ last.toks[3].int <= 255) =>
           /\ result = "running"
           /\ \A x \in DOMAIN cmap.map : InRange(x) \/ x \in DOMAIN last.pre.map
    /\ TopCidRangeRecord => result \in {"running", "none"}

\* C26 below the top: a loop goes on for ever only for a range that ends at
\* 0xFFFFFFFF, in a build without overflow checks.
C26_HangsOnlyAtTop ==
    result = "hang" =>
        /\ ~overflow_checks
        /\ \/ RangeEntry /\ EntryHigh = U32Max
           \/ TopCidRangeRecord

\* The first range of a type-3 record of 1-byte codes, or of a type-5 record,
\* whose end is carried out of the top byte and comes out below the start; the
\* item is read whole.
WrappedEndRecord ==
    /\ RecordRead
    /\ \/ /\ RecordType = 3 /\ RecordDataSize = 0
          /\ Len(last.toks) >= 5
          /\ last.toks[4] < 128 /\ last.toks[5] < 128
          /\ last.toks[3] + last.toks[4] >= 256
       \/ /\ RecordType = 5
          /\ Len(last.toks) >= 6 + RecordDataSize
          /\ last.toks[5] < 128
          /\ (last.toks[3] * 256) + last.toks[4] + last.toks[5] >= 65536

\* A textual range entry with low > high.
ReversedEntry == RangeEntry /\ U32Lt(EntryHigh, EntryLow)

(* C27, as stated: the span computation high - low of the range builders      *)
(* never underflows for arguments reachable from parse_cmap or                *)
(* parse_binary_cmap: a reversed range, `begincidrange <05> <03> 0` or a      *)
(* binary end cursor that wrapped below start, inserts no mapping and does    *)
(* not panic.                                                                 *)

C27_ReversedRangeHandled ==
    /\ ReversedEntry => (result # "panic" /\ cmap.map = last.pre.map)
    /\ WrappedEndRecord => result # "panic"

\* C27 for a build without overflow checks: no mapping is inserted, and the
\* wrapped span decides whether the builder returns None (above 0xFFFFFF) or
\* Some (at most 0xFFFFFF, as for low = 0xFFFFFFFF and high = 4).
C27_ReversedRangeWrapped ==
    ~overflow_checks =>
        /\ ReversedEntry =>
               /\ cmap.map = last.pre.map
               /\ result = IF U32Lt(U32(MAX_MAP_RANGE), wrapping_sub(EntryHigh, EntryLow))
                           THEN "none" ELSE "running"
        /\ WrappedEndRecord => result # "panic"

-----------------------------------------------------------------------------
(* The entries of begincodespacerange. *)

\* The last step read an entry of a codespacerange block that starts with a string.
CodespaceEntry == last.op = "codespacerange" /\ IsHex(1)

\* The last step read an empty low string.
EmptyLowRead == CodespaceEntry /\ last.toks[1].bytes = <<>>

\* The codespace ranges with (low, high) added under the length of high.
PairAdded(ranges, low, high) ==
    IF Len(high) \in 1..4
    THEN [ranges EXCEPT ![Len(high)] = @ \o <<BeValue(low), BeValue(high)>>]
    ELSE ranges

(* C23, as stated: in begincodespacerange an entry `low high` adds (pack(low), *)
(* pack(high)) to the sequence of the character count of high, nothing when   *)
(* that count is outside 1..=4; an entry whose low string is empty is skipped *)
(* as a whole, no range being added for it and the entries after it still     *)
(* being read as (low, high) pairs; an empty high string makes parse_cmap      *)
(* return absent.                                                             *)

C23_EmptyLowSkipsEntry ==
    [][(/\ EmptyLowRead /\ pc = "codespacerange"
        /\ entries' = entries + 1
        /\ Len(last'.toks) = 2
        /\ \A k \in 1..2 : last'.toks[k].type = "HexString" /\ last'.toks[k].bytes # <<>>)
           => cmap'.codespace_ranges = cmap.codespace_ranges]_vars

\* C23 token by token: an empty low string is skipped alone, the string after
\* it being the next low; the other entries are as stated.
C23_EmptyLowSkipsString ==
    CodespaceEntry =>
        IF last.toks[1].bytes = <<>>
        THEN /\ Len(last.toks) = 1
             /\ cmap = last.pre
             /\ pc = "codespacerange" /\ result = "running"
        ELSE IsHex(2) =>
                 IF last.toks[2].bytes = <<>>
                 THEN result = "none" /\ pc = "done"
                 ELSE /\ result = "running"
                      /\ cmap = [last.pre EXCEPT
                                    !.codespace_ranges =
                                        PairAdded(@, last.toks[1].bytes, last.toks[2].bytes)]

-----------------------------------------------------------------------------
(* The mapping operations, one after another. *)

\* The last step was a mapping directive of a textual block, or a whole record
\* of the binary parser, and its calls returned.
MappingStep ==
    \/ /\ last.op \in {"bfchar", "cidchar", "bfrange", "cidrange"}
       /\ result \in {"running", "none"}
    \/ /\ RecordRead /\ last.op = "record" /\ RecordType \in {2, 3, 4, 5}
       /\ result = "running"

\* The map the directive or record of the last step builds from CMap::new().
WrittenAlone ==
    CASE last.op = "bfchar" -> parse_bf_char(CMapNew, last.toks).cmap.map
      [] last.op = "cidchar" -> parse_cid_char(CMapNew, last.toks).cmap.map
      [] last.op = "bfrange" -> parse_bf_range(CMapNew, last.toks).cmap.map
      [] last.op = "cidrange" -> parse_cid_range(CMapNew, last.toks).cmap.map
      [] OTHER -> process_record(CMapNew, last.toks).cmap.map

(* C24: last write wins.  After any sequence of map_one, map_cid_range,       *)
(* map_bf_range and map_bf_range_to_array calls lookup_code(c) is the value   *)
(* written by the last call that covered c, the mappings of the codes no      *)
(* later call covered are unchanged, and no mapping operation changes name,   *)
(* vertical or the codespace ranges.                                          *)

C24_LastWriteWins ==
    MappingStep =>
        \A written \in {WrittenAlone} :
            /\ DOMAIN cmap.map = DOMAIN written \cup DOMAIN last.pre.map
            /\ \A c \in DOMAIN cmap.map :
                /\ cmap.map[c] = IF c \in DOMAIN written THEN written[c]
                                 ELSE last.pre.map[c]
                /\ lookup_code(cmap, c) = Some(cmap.map[c])
            /\ cmap.name = last.pre.name
            /\ cmap.vertical = last.pre.vertical
            /\ cmap.codespace_ranges = last.pre.codespace_ranges

\* A directive writes a code again with another value and leaves another code.
C24_Witness ==
    /\ MappingStep /\ family = "sequence"
    /\ \E written \in {WrittenAlone} :
        /\ \E c \in DOMAIN last.pre.map \cap DOMAIN written :
            cmap.map[c] = written[c] /\ cmap.map[c] # last.pre.map[c]
        /\ \E c \in DOMAIN last.pre.map \ DOMAIN written :
            cmap.map[c] = last.pre.map[c]

\* The same in the binary parser.
C24_WitnessBinary ==
    /\ MappingStep /\ family = "binary"
    /\ \E written \in {WrittenAlone} :
        \E c \in DOMAIN last.pre.map \cap DOMAIN written :
            cmap.map[c] = written[c] /\ cmap.map[c] # last.pre.map[c]

-----------------------------------------------------------------------------
(* Decoding a string code by code. *)

\* A caller that starts at offset and advances by the length read_code returns,
\* for as long as offset < bytes.len(); it is stopped after Len(bytes) + 1 steps.
RECURSIVE decode_from(_, _, _, _)
decode_from(cm, bytes, offset, steps) ==
    IF offset >= Len(bytes) \/ steps > Len(bytes)
    THEN [offset |-> offset, steps |-> steps]
    ELSE decode_from(cm, bytes, offset + read_code(cm, bytes, offset).len, steps + 1)

(* C29: for offset < bytes.len(), read_code returns a length n with           *)
(* 1 <= n <= 4 and offset + n <= bytes.len(); a caller that advances by that  *)
(* length reaches bytes.len() exactly, after at most bytes.len() steps.       *)

C29_ReadCodeProgress ==
    (rd.called /\ rd.offset < Len(rd.bytes)) =>
        /\ ~rd.out.panic
        /\ 1 <= rd.out.len /\ rd.out.len <= 4
        /\ rd.offset + rd.out.len <= Len(rd.bytes)
        /\ \A walk \in {decode_from(cmap, rd.bytes, rd.offset, 0)} :
            /\ walk.offset = Len(rd.bytes)
            /\ walk.steps <= Len(rd.bytes) - rd.offset
            /\ walk.steps >= 1

\* A two-byte codespace range is declared and one byte is left: the code read
\* is one byte long.
C29_Witness ==
    /\ rd.called
    /\ cmap.codespace_ranges[2] # <<>>
    /\ Len(rd.bytes) = 2 /\ rd.offset = 1
    /\ rd.out.len = 1

\* Two bytes are decoded in one step of two bytes.
C29_WitnessTwoBytes ==
    /\ rd.called
    /\ Len(rd.bytes) = 2 /\ rd.offset = 0
    /\ rd.out.len = 2
    /\ decode_from(cmap, rd.bytes, 0, 0) = [offset |-> 2, steps |-> 1]

-----------------------------------------------------------------------------
(* The lexer. *)

\* get_obj has been called; TokenStart is where its first skip_whitespace
\* stopped.
Lexing == family = "lexer" /\ lexer.calls > 0

TokenStart == skip_whitespace(lexer.input, lexer.from)

\* The last get_obj call found `<` at TokenStart.
HexStringRead ==
    /\ Lexing
    /\ TokenStart < Len(lexer.input)
    /\ lexer.input[TokenStart + 1] = 60

DictBegin == starts_with(lexer.input, TokenStart, <<60, 60>>)

\* The index (from 1) of the first `>` after the `<`, Len + 1 if there is none.
HexClose ==
    LET closing == {j \in (TokenStart + 2)..Len(lexer.input) : lexer.input[j] = 62}
    IN  IF closing = {} THEN Len(lexer.input) + 1
        ELSE CHOOSE j \in closing : \A k \in closing : j <= k

\* The bytes between the brackets, and the hex digits among them.
HexInner == SubSeq(lexer.input, TokenStart + 2, HexClose - 1)

HexDigits == SelectSeq(HexInner, is_ascii_hexdigit)

(* C22: `<...>` becomes a HexString whose bytes are built from the hex digits *)
(* between the brackets only, in order, two digits per byte; the other bytes  *)
(* are skipped, an odd final digit d yields the byte d0, an unterminated hex  *)
(* string ends at the end of the input, and `<<` is the Command `<<`.         *)

C22_HexString ==
    HexStringRead =>
        IF DictBegin
        THEN /\ lexer.token = CommandOf(<<60, 60>>)
             /\ lexer.position = TokenStart + 2
        ELSE /\ lexer.token.type = "HexString"
             /\ Len(lexer.token.bytes) = (Len(HexDigits) + 1) \div 2
             /\ \A k \in 1..Len(lexer.token.bytes) :
                 lexer.token.bytes[k] =
                     (16 * hex_digit(HexDigits[(2 * k) - 1]))
                     + (IF 2 * k <= Len(HexDigits) THEN hex_digit(HexDigits[2 * k]) ELSE 0)
             /\ lexer.position = Min(HexClose, Len(lexer.input))

\* <4 Ag2 : unterminated, a space and a g skipped, the final 2 alone.
C22_Witness ==
    /\ HexStringRead /\ ~DictBegin
    /\ HexClose = Len(lexer.input) + 1
    /\ Len(HexDigits) = 3 /\ Len(HexInner) = 5
    /\ lexer.token = HexString(<<74, 32>>)
    /\ lexer.position = Len(lexer.input)

\* << is read as a Command and the hex string after it as a HexString.
C22_WitnessDictBegin ==
    /\ HexStringRead /\ DictBegin
    /\ lexer.token = CommandOf(<<60, 60>>)
    /\ lexer.position = 2

\* From position on the input holds whitespace and comments only.
RECURSIVE rest_is_blank(_, _)
rest_is_blank(input, position) ==
    IF skip_whitespace(input, position) >= Len(input) THEN TRUE
    ELSE IF input[skip_whitespace(input, position) + 1] = 37
    THEN rest_is_blank(input, skip_comment(input, skip_whitespace(input, position)))
    ELSE FALSE

(* C28, as stated: get_obj returns Eof only when nothing but whitespace and   *)
(* comments remains in the input; a stray `>`, `)`, `{` or `}` does not       *)
(* produce Eof while bytes remain.                                            *)

C28_EofOnlyAtEnd ==
    (Lexing /\ lexer.token = Eof) => rest_is_blank(lexer.input, lexer.from)

\* What the code does: Eof is returned at the end of the input, or in front of
\* a `>` that is not followed by `>`, a `)`, a `{` or a `}`, which stays unread
\* with everything after it.
C28_EofAtEndOrDelimiter ==
    (Lexing /\ lexer.token = Eof) =>
        \/ /\ rest_is_blank(lexer.input, lexer.from)
           /\ lexer.position >= Len(lexer.input)
        \/ /\ lexer.position < Len(lexer.input)
           /\ lexer.input[lexer.position + 1] \in {62, 41, 123, 125}
           /\ ~starts_with(lexer.input, lexer.position, <<62, 62>>)
           /\ ~rest_is_blank(lexer.input, lexer.from)

\* `> 3`: Eof at position 0, the 3 never read.
C28_WitnessStray ==
    /\ Lexing /\ lexer.token = Eof /\ pc = "done"
    /\ lexer.input = <<62, 32, 51>>
    /\ lexer.position = 0

(* C30, as stated: 0 <= position <= input.len() in every state, position     *)
(* never decreases, every get_obj call that returns a token other than Eof    *)
(* advances position by at least one byte, and the token stream is finite.    *)

C30_LexerProgress ==
    family = "lexer" =>
        /\ 0 <= lexer.position /\ lexer.position <= Len(lexer.input)
        /\ lexer.from <= lexer.position
        /\ (Lexing /\ lexer.token # Eof) => lexer.from < lexer.position
        /\ lexer.tokens <= Len(lexer.input)
        /\ lexer.calls <= Len(lexer.input) + 1

\* What the code does: position is input.len() + 1 after a String that the end
\* of the input cut right after a backslash, and within the input otherwise; the
\* rest of the claim holds.
C30_ProgressPastEnd ==
    family = "lexer" =>
        /\ 0 <= lexer.position /\ lexer.position <= Len(lexer.input) + 1
        /\ lexer.position > Len(lexer.input) =>
            /\ lexer.token.type \in {"String", "Eof"}
            /\ lexer.input[Len(lexer.input)] = 92
        /\ lexer.from <= lexer.position
        /\ (Lexing /\ lexer.token # Eof) => lexer.from < lexer.position
        /\ lexer.tokens <= Len(lexer.input)
        /\ lexer.calls <= Len(lexer.input) + 1

\* position never decreases, as a property of the steps.
C30_PositionMonotone == [][lexer'.position >= lexer.position]_vars

\* `(\`: the String is returned with position 3 in an input of 2 bytes, and the
\* next call returns Eof.
C30_WitnessPastEnd ==
    /\ Lexing /\ lexer.input = <<40, 92>>
    /\ lexer.token = Eof /\ lexer.position = 3 /\ lexer.calls = 2

=============================================================================
